---- MODULE Spec2Model ----
(***************************************************************************)
(* Model of the coupon validation bot (package coupon_validator).         *)
(*                                                                         *)
(* Python values are modelled as follows: a dict is a function whose      *)
(* DOMAIN is the set of its keys (a record), a list is a sequence, None   *)
(* is the value None below.  The HTML of a page is a set of text tokens    *)
(* (the page source is the tokens joined by newlines; no pattern of the    *)
(* program contains a newline and "." does not match one, so a pattern     *)
(* matches the page exactly when it matches one of the tokens).           *)
(***************************************************************************)
EXTENDS Integers, Sequences, FiniteSets, TLC

VARIABLES
    page,               \* BrowserEngine.page: "none" or "open"
    html_content,       \* tokens of the HTML of the current page
    current_url,        \* tokens of the URL of the current page
    dom,                \* selector -> element state of the current page
    platform_patterns,  \* WebsitePatternRecognizer.platform_patterns
    platform_selectors, \* WebsitePatternRecognizer.platform_selectors
    platform_info,      \* descriptor returned by identify_platform
    prev_platform_info, \* descriptor of the previous run on the same page
    validation_result,  \* verdict returned by _check_validation_result
    nav_pc,             \* navigate: "idle", "attempting" or "returned"
    nav_i,              \* navigate: index i + 1 of the loop over strategies
    wait_until,         \* navigate: the caller's wait policy
    nav_session,        \* navigate: self.page as tested on entry
    navigation_metrics, \* navigate: the dict navigation_metrics
    nav_result,         \* navigate: the returned bool
    attempt_log,        \* navigate: per attempt, the strategy and the site
    run_pc,             \* validate_coupon: position in the function
    run_page,           \* validate_coupon: browser_engine.page of the run
    run_locals,         \* validate_coupon: the local names that are bound
    run_k,              \* validate_coupon: index of the current strategy
    navigation_success, \* validate_coupon: local navigation_success
    navigation_errors,  \* validate_coupon: local navigation_errors
    run_pending,        \* validate_coupon: exception in flight, or None
    run_result,         \* validate_coupon: the result being returned
    run_events,         \* validate_coupon: calls made on collaborators
    arg_coupon_code,    \* validate_coupon: argument coupon_code
    arg_website_url,    \* validate_coupon: argument website_url
    stage_call,         \* stage: the method called, "" before the call
    stage_url,          \* stage: browser_engine.page.url
    stage_result,       \* stage: the dict returned by the method
    stage_trace,        \* stage: browser operations made by the method
    context,            \* BrowserEngine.context: "open", or "none" for None
    browser,            \* BrowserEngine.browser
    playwright          \* BrowserEngine.playwright

vars == << page, html_content, current_url, dom, platform_patterns,
           platform_selectors, platform_info, prev_platform_info,
           validation_result, nav_pc, nav_i, wait_until, nav_session,
           navigation_metrics, nav_result, attempt_log, run_pc, run_page,
           run_locals, run_k, navigation_success, navigation_errors, run_pending,
           run_result, run_events, arg_coupon_code, arg_website_url,
           stage_call, stage_url, stage_result, stage_trace, context, browser,
           playwright >>

identVars == << html_content, current_url, platform_patterns,
                platform_selectors, platform_info, prev_platform_info >>
classifyVars == << dom, validation_result >>
navVars == << nav_pc, nav_i, wait_until, nav_session, navigation_metrics,
              nav_result, attempt_log >>
runVars == << run_pc, run_page, run_locals, run_k, navigation_success,
              navigation_errors, run_pending, run_result, run_events,
              arg_coupon_code, arg_website_url >>

stageVars == << stage_call, stage_url, stage_result, stage_trace >>

sessionVars == << context, browser, playwright >>

None == "<None>"

\* An entry of the trace of a stage.
Op(op, ladder, selector, arg) ==
    [op |-> op, ladder |-> ladder, selector |-> selector, arg |-> arg]

Range(s) == { s[i] : i \in DOMAIN s }

HasKey(d, k) == k \in DOMAIN d

\* Python truthiness of an optional string.
Truthy(x) == x # None /\ x # ""

\* get_html_content() of a session without a page.
NoHtml == { None }

(***************************************************************************)
(* Bounds of the model.                                                    *)
(***************************************************************************)
MaxHtmlTokens == 2
MaxUrlTokens == 1
MaxElements == 2

(***************************************************************************)
(* WebsitePatternRecognizer: signature and selector tables.               *)
(***************************************************************************)
PatternPlatforms ==
    << "magento", "woocommerce", "shopify", "opencart", "prestashop", "bigcommerce", "skullcandy", "custom_ecommerce" >>

platform_patterns_table ==
    [p \in Range(PatternPlatforms) |->
        CASE p = "magento" ->
            << "Magento", "mage/cookies", "magento-version", "Mage.Cookies", "Magento_Ui", "catalog\\/product\\/view", "checkout\\/cart", "requirejs-config" >>
          [] p = "woocommerce" ->
            << "woocommerce", "WooCommerce", "wc-", "wc_", "is-woocommerce-", "woocommerce-", "wp-content" >>
          [] p = "shopify" ->
            << "shopify", "Shopify", "shopify-", "\\/cdn\\/shop", "shopify.com", "myshopify.com" >>
          [] p = "opencart" ->
            << "opencart", "OpenCart", "route=checkout", "route=product", "catalog\\/view" >>
          [] p = "prestashop" ->
            << "prestashop", "PrestaShop", "presta-", "id_product=", "controller=product", "controller=cart" >>
          [] p = "bigcommerce" ->
            << "bigcommerce", "BigCommerce", "bc-", "bigcommerce.com", "data-cart" >>
          [] p = "skullcandy" ->
            << "skullcandy", "Skullcandy", "skullcandy.in", "skullcandy.com", "skull-", "collection\\/tws" >>
          [] p = "custom_ecommerce" ->
            << "add-to-cart", "add_to_cart", "cart", "checkout", "product", "collection", "category" >>]

SelectorPlatforms ==
    { "magento", "skullcandy", "custom_ecommerce", "woocommerce", "shopify", "opencart", "prestashop", "bigcommerce" }

selectors_magento ==
    [
      product_grid |->
        << ".products-grid .product-item",
           ".product-items .product-item",
           ".products.list .product-item" >>,
      add_to_cart |->
        << "#product-addtocart-button",
           ".action.tocart",
           ".action.primary.tocart" >>,
      cart_link |->
        << ".action.showcart",
           ".minicart-wrapper .action.showcart",
           ".action.viewcart" >>,
      checkout_button |->
        << ".action.primary.checkout",
           "#top-cart-btn-checkout",
           ".checkout-methods-items .action.primary.checkout" >>,
      coupon_field |->
        << "#coupon_code",
           "#discount-code",
           "#discount-coupon-form #coupon_code" >> ]

selectors_skullcandy ==
    [
      product_grid |->
        << ".collection-item",
           ".product-item",
           ".grid-item",
           ".product-card" >>,
      add_to_cart |->
        << ".add-to-cart",
           ".add_to_cart",
           "button:has-text(\"Add to Cart\")",
           "button:has-text(\"Buy Now\")",
           ".product-form__cart-submit" >>,
      cart_link |->
        << ".cart-link",
           ".cart-icon",
           "a[href*=\"/cart\"]",
           ".cart-count-bubble" >>,
      checkout_button |->
        << ".checkout-button",
           "button:has-text(\"Checkout\")",
           "button:has-text(\"Proceed to Checkout\")",
           "a:has-text(\"Checkout\")" >>,
      coupon_field |->
        << "#coupon_code",
           "#discount-code",
           "input[name=\"discount\"]",
           "input[placeholder*=\"coupon\"]",
           "input[placeholder*=\"Coupon\"]",
           "input[placeholder*=\"discount\"]",
           "input[placeholder*=\"Discount\"]",
           "input[placeholder*=\"promo\"]",
           "input[placeholder*=\"Promo\"]" >>,
      coupon_button |->
        << "button:has-text(\"Apply\")",
           "button:has-text(\"Apply Coupon\")",
           "button:has-text(\"Apply Discount\")",
           "input[value=\"Apply\"]",
           ".coupon-btn",
           ".apply-coupon" >>,
      coupon_success |->
        << ".coupon-success",
           ".discount-success",
           ".success-message",
           ".alert-success",
           ".discount-applied" >>,
      coupon_error |->
        << ".coupon-error",
           ".discount-error",
           ".error-message",
           ".alert-error",
           ".alert-danger" >>,
      discount_amount |->
        << ".discount-amount",
           ".cart-discount",
           ".order-discount",
           ".discount-total",
           ".discount-value" >> ]

selectors_custom_ecommerce ==
    [
      product_grid |->
        << ".product",
           ".product-item",
           ".product-card",
           ".collection-item",
           ".grid-item",
           ".item-card" >>,
      add_to_cart |->
        << ".add-to-cart",
           ".add_to_cart",
           "#add-to-cart",
           "#add_to_cart",
           "button:has-text(\"Add to Cart\")",
           "button:has-text(\"Buy Now\")" >>,
      cart_link |->
        << ".cart",
           ".cart-link",
           ".cart-icon",
           "a[href*=\"/cart\"]",
           ".cart-count" >>,
      checkout_button |->
        << ".checkout",
           ".checkout-button",
           "button:has-text(\"Checkout\")",
           "a:has-text(\"Checkout\")" >>,
      coupon_field |->
        << "#coupon_code",
           "#discount-code",
           "input[name*=\"coupon\"]",
           "input[name*=\"discount\"]",
           "input[placeholder*=\"coupon\"]",
           "input[placeholder*=\"discount\"]",
           "input[placeholder*=\"promo\"]" >>,
      coupon_button |->
        << ".action.apply.primary",
           "button.action.apply",
           "#discount-coupon-form .action.primary" >>,
      coupon_success |->
        << ".message-success",
           ".messages .success",
           ".page.messages .message-success" >>,
      coupon_error |->
        << ".message-error",
           ".messages .error",
           ".page.messages .message-error" >>,
      discount_amount |->
        << ".discount .amount",
           ".discount-amount",
           ".totals.discount .amount" >> ]

selectors_woocommerce ==
    [
      product_grid |->
        << ".products .product",
           "ul.products li.product",
           ".wc-block-grid__products .wc-block-grid__product" >>,
      add_to_cart |->
        << ".single_add_to_cart_button",
           ".add_to_cart_button",
           "button.alt.add_to_cart" >>,
      cart_link |->
        << ".cart-contents",
           ".woocommerce-cart-link",
           "a.cart-link" >>,
      checkout_button |->
        << ".checkout-button",
           ".wc-proceed-to-checkout .button",
           "a.checkout-button.button.alt.wc-forward" >>,
      coupon_field |->
        << "#coupon_code",
           ".coupon #coupon_code",
           "input[name=\"coupon_code\"]" >>,
      coupon_button |->
        << "button[name=\"apply_coupon\"]",
           ".coupon .button",
           ".coupon button" >>,
      coupon_success |->
        << ".woocommerce-message",
           ".woocommerce-notice--success",
           ".woocommerce-info:contains(\"Coupon\")" >>,
      coupon_error |->
        << ".woocommerce-error",
           ".woocommerce-notice--error",
           ".woocommerce-error li" >>,
      discount_amount |->
        << ".cart-discount .amount",
           ".discount-total",
           "tr.cart-discount td" >> ]

selectors_shopify ==
    [
      product_grid |->
        << ".product-grid .grid__item",
           ".product-card",
           ".product-list .product-item" >>,
      add_to_cart |->
        << ".add-to-cart",
           ".product-form__submit",
           "button[name=\"add\"]" >>,
      cart_link |->
        << ".cart-link",
           ".cart-icon-link",
           "a[href=\"/cart\"]" >>,
      checkout_button |->
        << ".checkout-button",
           "input[name=\"checkout\"]",
           "button[name=\"checkout\"]" >>,
      coupon_field |->
        << "#checkout_reduction_code",
           "#discount_input",
           "input[name=\"discount\"]" >>,
      coupon_button |->
        << "#checkout_submit",
           ".order-summary__section--discount button",
           "button:contains(\"Apply\")" >>,
      coupon_success |->
        << ".reduction-code__text",
           ".applied-reduction-code__information",
           ".notice--success" >>,
      coupon_error |->
        << ".field__message--error",
           ".error-message",
           ".notice--error" >>,
      discount_amount |->
        << ".reduction-code__amount",
           ".total-recap__discount-amount",
           ".discount-tag" >> ]

selectors_opencart ==
    [
      product_grid |->
        << ".product-layout",
           ".product-grid",
           ".product-thumb" >>,
      add_to_cart |->
        << "#button-cart",
           ".btn-primary:contains(\"Add to Cart\")",
           "button[onclick*=\"cart.add\"]" >>,
      cart_link |->
        << "#cart",
           "#cart-total",
           "a[href*=\"route=checkout/cart\"]" >>,
      checkout_button |->
        << ".btn-primary:contains(\"Checkout\")",
           "a[href*=\"route=checkout/checkout\"]",
           "#button-checkout" >>,
      coupon_field |->
        << "#input-coupon",
           "input[name=\"coupon\"]",
           "#collapse-coupon input" >>,
      coupon_button |->
        << "#button-coupon",
           ".btn-primary:contains(\"Apply Coupon\")",
           "input[type=\"button\"][value=\"Apply Coupon\"]" >>,
      coupon_success |->
        << ".alert-success",
           ".alert.alert-success",
           ".text-success" >>,
      coupon_error |->
        << ".alert-danger",
           ".alert.alert-danger",
           ".text-danger" >>,
      discount_amount |->
        << "#total_coupon",
           ".coupon-amount",
           "tr:contains(\"Coupon\") .text-right" >> ]

selectors_prestashop ==
    [
      product_grid |->
        << ".product-miniature",
           ".products .product",
           ".product_list .ajax_block_product" >>,
      add_to_cart |->
        << ".add-to-cart",
           ".btn.add-to-cart",
           "#add-to-cart-or-refresh button" >>,
      cart_link |->
        << ".cart-preview",
           ".blockcart",
           "a[href*=\"controller=cart\"]" >>,
      checkout_button |->
        << ".cart-detailed-actions .btn",
           ".checkout a",
           "a[href*=\"controller=order\"]" >>,
      coupon_field |->
        << "#promo-code input",
           "input[name=\"discount_name\"]",
           ".promo-input" >>,
      coupon_button |->
        << ".promo-code button",
           ".promo-code .btn",
           "button:contains(\"Add\")" >>,
      coupon_success |->
        << ".cart-summary-line.promo-code-line",
           ".alert.alert-success",
           ".promo-code-success" >>,
      coupon_error |->
        << ".alert.alert-danger",
           ".promo-code-error",
           ".js-error-text" >>,
      discount_amount |->
        << ".cart-summary-line.cart-total .value",
           ".discount .value",
           ".discount-price" >> ]

selectors_bigcommerce ==
    [
      product_grid |->
        << ".product",
           ".card",
           ".productGrid .product" >>,
      add_to_cart |->
        << "#form-action-addToCart",
           ".add-to-cart",
           "button[data-button-type=\"add-cart\"]" >>,
      cart_link |->
        << ".navUser-item--cart",
           ".cart-icon",
           "a[href=\"/cart.php\"]" >>,
      checkout_button |->
        << ".checkout-button",
           ".cart-actions .button--primary",
           "a[href=\"/checkout.php\"]" >>,
      coupon_field |->
        << "#couponcode",
           "input[name=\"couponcode\"]",
           ".coupon-code-input" >>,
      coupon_button |->
        << ".coupon-code-add",
           "input[value=\"Apply Coupon\"]",
           "button:contains(\"Apply Coupon\")" >>,
      coupon_success |->
        << ".coupon-applied",
           ".alert-success",
           ".coupon-code-success" >>,
      coupon_error |->
        << ".coupon-error",
           ".alert-error",
           ".error-message" >>,
      discount_amount |->
        << ".cart-total-value",
           ".coupon-discount",
           ".cart-priceItem--promotion" >> ]

\* The dict platform_patterns: keys in declaration order and their lists.
platform_patterns_init ==
    [order |-> PatternPlatforms, map |-> platform_patterns_table]

\* The dict platform_selectors (platform -> role -> ladder).
platform_selectors_init ==
    [p \in SelectorPlatforms |->
        CASE p = "magento" -> selectors_magento
          [] p = "skullcandy" -> selectors_skullcandy
          [] p = "custom_ecommerce" -> selectors_custom_ecommerce
          [] p = "woocommerce" -> selectors_woocommerce
          [] p = "shopify" -> selectors_shopify
          [] p = "opencart" -> selectors_opencart
          [] p = "prestashop" -> selectors_prestashop
          [] p = "bigcommerce" -> selectors_bigcommerce]

(***************************************************************************)
(* Page sources.  re_search_table[t] is the set of signature patterns p   *)
(* for which re.search(p, t, re.IGNORECASE) finds a match in the token t. *)
(***************************************************************************)
PageTokens ==
    { "Mage.Cookies", "checkout/cart", "product", "wp-content", "myshopify.com", "controller=cart", "Discount: $12.34" }

re_search_table ==
    [t \in PageTokens |->
        CASE t = "Mage.Cookies" ->
            { "Mage.Cookies" }
          [] t = "checkout/cart" ->
            { "checkout\\/cart", "cart", "checkout" }
          [] t = "product" ->
            { "product" }
          [] t = "wp-content" ->
            { "wp-content" }
          [] t = "myshopify.com" ->
            { "shopify", "Shopify", "shopify.com", "myshopify.com" }
          [] t = "controller=cart" ->
            { "controller=cart", "cart" }
          [] t = "Discount: $12.34" ->
            {  }]

\* re.search(pattern, text, re.IGNORECASE) is not None, text a token set.
re_search(pattern, text) ==
    \E t \in text : t \in PageTokens /\ pattern \in re_search_table[t]

\* The inner loop of identify_platform: score of one platform.
RECURSIVE ScoreFrom(_, _, _, _)
ScoreFrom(patterns, i, html, url) ==
    IF i > Len(patterns) THEN 0
    ELSE (IF re_search(patterns[i], html) \/ re_search(patterns[i], url)
          THEN 1 ELSE 0) + ScoreFrom(patterns, i + 1, html, url)

confidence_scores(patterns, html, url) ==
    [p \in Range(patterns.order) |-> ScoreFrom(patterns.map[p], 1, html, url)]

\* max(confidence_scores.values())
RECURSIVE MaxFrom(_, _, _)
MaxFrom(order, scores, i) ==
    IF i > Len(order) THEN 0
    ELSE LET rest == MaxFrom(order, scores, i + 1)
         IN IF scores[order[i]] > rest THEN scores[order[i]] ELSE rest

\* The loop over confidence_scores.items() that breaks at the first
\* platform whose score equals the maximum.
RECURSIVE FirstWithScore(_, _, _, _)
FirstWithScore(order, scores, max_score, i) ==
    IF i > Len(order) THEN "unknown"
    ELSE IF scores[order[i]] = max_score THEN order[i]
    ELSE FirstWithScore(order, scores, max_score, i + 1)

\* detected_platform without the test "if max_score > 0".
detected_platform_NoZeroGuard(order, scores) ==
    LET max_score == MaxFrom(order, scores, 1)
    IN IF Len(order) > 0
       THEN FirstWithScore(order, scores, max_score, 1)
       ELSE "unknown"

detected_platform(order, scores) ==
    LET max_score == MaxFrom(order, scores, 1)
    IN IF Len(order) > 0 /\ max_score > 0
       THEN FirstWithScore(order, scores, max_score, 1)
       ELSE "unknown"

\* AIWebsiteAnalyzer.element_types: the roles the AI analysis can detect.
element_types ==
    << "coupon_field", "coupon_button", "checkout_button", "cart_link",
       "add_to_cart", "product_grid", "coupon_success", "coupon_error",
       "discount_amount" >>

\* identify_platform whose descriptor lists every role, with an empty
\* ladder for a role the platform has no selectors for.
identify_platform_ListsEveryRole(pg, html, url, patterns, selectors) ==
    IF pg = "none"
    THEN [platform |-> "unknown",
          error |-> "'NoneType' object has no attribute 'content'"]
    ELSE LET scores == confidence_scores(patterns, html, url)
             detected == detected_platform(patterns.order, scores)
             sel == IF detected \in DOMAIN selectors
                    THEN selectors[detected] ELSE << >>
             roles == { element_types[i] : i \in DOMAIN element_types }
         IN [platform |-> detected, confidence_scores |-> scores]
              @@ sel @@ [r \in roles |-> << >>]

\* identify_platform whose except clause keeps a platform tag and its
\* selectors.
identify_platform_KeepsDetection(pg, html, url, patterns, selectors) ==
    IF pg = "none"
    THEN [platform |-> patterns.order[1],
          error |-> "'NoneType' object has no attribute 'content'"]
            @@ selectors[patterns.order[1]]
    ELSE LET scores == confidence_scores(patterns, html, url)
             detected == detected_platform(patterns.order, scores)
             sel == IF detected \in DOMAIN selectors
                    THEN selectors[detected] ELSE << >>
         IN [platform |-> detected, confidence_scores |-> scores] @@ sel

\* identify_platform: the descriptor returned for the current page.
identify_platform(pg, html, url, patterns, selectors) ==
    IF pg = "none"
    THEN [platform |-> "unknown",
          error |-> "'NoneType' object has no attribute 'content'"]
    ELSE LET scores == confidence_scores(patterns, html, url)
             detected == detected_platform(patterns.order, scores)
             sel == IF detected \in DOMAIN selectors
                    THEN selectors[detected] ELSE << >>
         IN [platform |-> detected, confidence_scores |-> scores] @@ sel

(***************************************************************************)
(* Browser Session primitives used by the classifier.  dom maps the       *)
(* selectors that match an element to [visible, text].                    *)
(***************************************************************************)
\* BrowserEngine.is_visible
is_visible(pg, d, selector) ==
    pg = "open" /\ selector \in DOMAIN d /\ d[selector].visible

\* BrowserEngine.get_text
get_text(pg, d, selector) ==
    IF pg = "open" /\ selector \in DOMAIN d /\ d[selector].visible
    THEN d[selector].text
    ELSE None

\* BrowserEngine.get_html_content
get_html_content(pg, html) == IF pg = "open" THEN html ELSE NoHtml

(***************************************************************************)
(* CouponApplicator: Result Classifier.                                    *)
(***************************************************************************)
ai_confidence_threshold == 80   \* 0.8, confidences are in hundredths

discount_selectors ==
    << ".discount-amount",
       ".discount",
       ".coupon-discount",
       ".order-discount",
       ".cart-discount",
       ".price-discount",
       ".order-summary__discount",
       ".cart-summary__discount",
       ".discount-total",
       "span:has-text(\"discount\")",
       "div:has-text(\"discount\")",
       "tr:has-text(\"discount\")",
       "td:has-text(\"discount\")",
       "span:has-text(\"Discount\")",
       "div:has-text(\"Discount\")",
       "tr:has-text(\"Discount\")",
       "td:has-text(\"Discount\")" >>

success_selectors ==
    << ".success-message",
       ".alert-success",
       ".message-success",
       ".coupon-success",
       ".discount-success",
       ".promo-success",
       "div:has-text(\"successfully\")",
       "div:has-text(\"Successfully\")",
       "div:has-text(\"applied\")",
       "div:has-text(\"Applied\")",
       "p:has-text(\"successfully\")",
       "p:has-text(\"Successfully\")",
       "p:has-text(\"applied\")",
       "p:has-text(\"Applied\")",
       "span:has-text(\"successfully\")",
       "span:has-text(\"Successfully\")",
       "span:has-text(\"applied\")",
       "span:has-text(\"Applied\")" >>

error_selectors ==
    << ".error-message",
       ".alert-danger",
       ".message-error",
       ".coupon-error",
       ".discount-error",
       ".promo-error",
       "div:has-text(\"invalid\")",
       "div:has-text(\"Invalid\")",
       "div:has-text(\"expired\")",
       "div:has-text(\"Expired\")",
       "div:has-text(\"not valid\")",
       "div:has-text(\"Not valid\")",
       "p:has-text(\"invalid\")",
       "p:has-text(\"Invalid\")",
       "p:has-text(\"expired\")",
       "p:has-text(\"Expired\")",
       "p:has-text(\"not valid\")",
       "p:has-text(\"Not valid\")",
       "span:has-text(\"invalid\")",
       "span:has-text(\"Invalid\")",
       "span:has-text(\"expired\")",
       "span:has-text(\"Expired\")",
       "span:has-text(\"not valid\")",
       "span:has-text(\"Not valid\")" >>

\* re.search(r'[\-\$£€]?\s*[\d,.]+', text): group(0).strip() or None,
\* evaluated on the element texts of the model.
numeric_match(text) ==
    CASE text = "$0.00" -> "$0.00"
      [] text = "-$5.00 off" -> "$5.00"
      [] OTHER -> None

\* The six discount_patterns searched in the page source with
\* re.IGNORECASE: group(0).strip() of the first pattern that matches.
discount_pattern_match(html) ==
    IF "Discount: $12.34" \in html THEN "Discount: $12.34" ELSE None

\* A message ladder: text of the first selector that is visible and has a
\* non-empty text (the loop breaks only inside "if message:").
RECURSIVE FirstMessage(_, _, _, _)
FirstMessage(pg, d, ladder, i) ==
    IF i > Len(ladder) THEN None
    ELSE IF is_visible(pg, d, ladder[i]) /\ Truthy(get_text(pg, d, ladder[i]))
         THEN get_text(pg, d, ladder[i])
         ELSE FirstMessage(pg, d, ladder, i + 1)

\* The discount ladder: first visible selector whose text has a numeric
\* token.
RECURSIVE FirstAmount(_, _, _, _)
FirstAmount(pg, d, ladder, i) ==
    IF i > Len(ladder) THEN None
    ELSE IF /\ is_visible(pg, d, ladder[i])
            /\ Truthy(get_text(pg, d, ladder[i]))
            /\ numeric_match(get_text(pg, d, ladder[i])) # None
         THEN numeric_match(get_text(pg, d, ladder[i]))
         ELSE FirstAmount(pg, d, ladder, i + 1)

\* CouponApplicator._extract_discount_amount
_extract_discount_amount(pg, d, html, info) ==
    LET ai_discount_selectors ==
            IF /\ HasKey(info, "ai_confidence_scores")
               /\ HasKey(info.ai_confidence_scores, "discount_amount")
               /\ info.ai_confidence_scores.discount_amount
                      > ai_confidence_threshold
               /\ HasKey(info, "discount_amount")
               /\ Len(info.discount_amount) > 0
            THEN info.discount_amount
            ELSE << >>
        ladder == ai_discount_selectors \o discount_selectors
        amount == FirstAmount(pg, d, ladder, 1)
        html_now == get_html_content(pg, html)
    IN IF amount # None THEN amount
       ELSE IF html_now # NoHtml /\ html_now # {}
            THEN discount_pattern_match(html_now)
            ELSE None

\* The platform-specific ladder a stage probes for a role: empty when the
\* descriptor has no platform or no such ladder (the guards of lines 56-57,
\* 176-177, 317-318 and 330).
platform_ladder(info, role) ==
    IF /\ HasKey(info, "platform") /\ info.platform # "unknown"
       /\ HasKey(info, role) /\ Len(info[role]) > 0
    THEN info[role]
    ELSE << >>

\* The message found with the platform-specific ladder of a role, None
\* when nothing is found.
PlatformMessage(pg, d, info, role) ==
    FirstMessage(pg, d, platform_ladder(info, role), 1)

\* A success message was found: lines 324-325 and 368-369.
RecordSuccess(result, message) ==
    [result EXCEPT !.success_message = message, !.is_valid = TRUE]

\* RecordError with the reset of is_valid left out.
RecordError_KeepsValid(result, message) ==
    [result EXCEPT !.error_message = message]

\* An error message was found: lines 335-336 and 404-405.
RecordError(result, message) ==
    [result EXCEPT !.error_message = message, !.is_valid = FALSE]

\* ComposeDiscount with the final heuristic not looking at error_message.
ComposeDiscount_NoErrorGuard(result, discount_amount) ==
    LET r1 == IF Truthy(discount_amount)
              THEN [result EXCEPT !.discount_amount = discount_amount]
              ELSE result
    IN IF r1.is_valid = FALSE /\ Truthy(discount_amount)
       THEN [r1 EXCEPT !.is_valid = TRUE]
       ELSE r1

\* ComposeDiscount that only records the amount.
ComposeDiscount_AmountOnly(result, discount_amount) ==
    IF Truthy(discount_amount)
    THEN [result EXCEPT !.discount_amount = discount_amount]
    ELSE result

\* The verdict composition at the end of _check_validation_result.
ComposeDiscount(result, discount_amount) ==
    LET r1 == IF Truthy(discount_amount)
              THEN [result EXCEPT
                       !.discount_amount = discount_amount,
                       !.is_valid = IF /\ result.success_message = None
                                       /\ result.error_message = None
                                    THEN TRUE ELSE @]
              ELSE result
    IN IF /\ r1.is_valid = FALSE /\ r1.error_message = None
          /\ Truthy(discount_amount)
       THEN [r1 EXCEPT !.is_valid = TRUE]
       ELSE r1

\* Line 341 with the test of error_message left out.
generic_needed_SuccessOnly(result) == result.success_message = None

\* Line 341: the common selectors are tried when the platform-specific
\* ones recorded no message.
generic_needed(result) ==
    result.success_message = None /\ result.error_message = None

\* CouponApplicator._check_validation_result
_check_validation_result(pg, d, html, info) ==
    LET r0 == [is_valid |-> FALSE, discount_amount |-> None,
               success_message |-> None, error_message |-> None]
        ps == PlatformMessage(pg, d, info, "coupon_success")
        r1 == IF ps # None THEN RecordSuccess(r0, ps) ELSE r0
        pe == PlatformMessage(pg, d, info, "coupon_error")
        r2 == IF pe # None THEN RecordError(r1, pe) ELSE r1
        generic == generic_needed(r2)
        gs == IF generic THEN FirstMessage(pg, d, success_selectors, 1)
              ELSE None
        r3 == IF gs # None THEN RecordSuccess(r2, gs) ELSE r2
        ge == IF generic THEN FirstMessage(pg, d, error_selectors, 1)
              ELSE None
        r4 == IF ge # None THEN RecordError(r3, ge) ELSE r3
    IN ComposeDiscount(r4, _extract_discount_amount(pg, d, html, info))

(***************************************************************************)
(* BrowserEngine.navigate: the Navigation Strategist.                      *)
(***************************************************************************)
\* Whether the name "random" is bound in the globals of browser_engine.py.
\* The module imports asyncio, logging, typing and playwright only; the
\* statement "import random" inside start() binds a local of start().
random_is_bound == FALSE

WaitPolicies == { "networkidle", "domcontentloaded", "load" }

\* The list strategies built by navigate (timeouts in units of the caller's
\* timeout).
strategies(wait) ==
    << [wait_until |-> wait, timeout |-> 1, delay |-> 0, method |-> "normal"],
       [wait_until |-> "domcontentloaded", timeout |-> 1, delay |-> 2,
        method |-> "normal"],
       [wait_until |-> "load", timeout |-> 1, delay |-> 4,
        method |-> "normal"],
       [wait_until |-> None, timeout |-> 1, delay |-> 8, method |-> "reload"],
       [wait_until |-> None, timeout |-> 2, delay |-> 16,
        method |-> "new_tab"] >>

\* Result of the content script and of the bot-detection script.
\* returned = FALSE stands for execute_javascript returning None.
ContentOK == [returned |-> TRUE, bodyExists |-> TRUE, contentLength |-> 5000]
ContentShort == [returned |-> TRUE, bodyExists |-> TRUE, contentLength |-> 99]
ContentNone == [returned |-> FALSE, bodyExists |-> FALSE, contentLength |-> 0]
NoBot == [returned |-> TRUE, hasCaptcha |-> FALSE, hasAccessDenied |-> FALSE,
          hasCloudflare |-> FALSE, hasBotDetection |-> FALSE]
Cloudflare == [NoBot EXCEPT !.hasCloudflare = TRUE]
BotNone == [NoBot EXCEPT !.returned = FALSE]

\* response of goto/reload: an HTTP status, NoResponse for None, Raises
\* for an exception (timeout, network error).
NoResponse == 0
Raises == -1

\* What the site does on one attempt: the response of goto/reload, the
\* value of the content script and of the bot script.
Envs ==
    { [response |-> 200, content |-> ContentOK, bot |-> NoBot],
      [response |-> NoResponse, content |-> ContentOK, bot |-> NoBot],
      [response |-> 404, content |-> ContentOK, bot |-> NoBot],
      [response |-> Raises, content |-> ContentOK, bot |-> NoBot],
      [response |-> 200, content |-> ContentShort, bot |-> NoBot],
      [response |-> 200, content |-> ContentNone, bot |-> NoBot],
      [response |-> 200, content |-> ContentOK, bot |-> Cloudflare],
      [response |-> 200, content |-> ContentOK, bot |-> BotNone] }

\* any(bot_check.values())
AnyBot(bot) ==
    bot.hasCaptcha \/ bot.hasAccessDenied \/ bot.hasCloudflare
        \/ bot.hasBotDetection

AttemptFailed(i, text) ==
    "Navigation attempt " \o ToString(i) \o " failed: " \o text

\* The checks of one attempt after the response was obtained.
AfterResponse(i, env) ==
    IF env.response # NoResponse /\ env.response >= 400
    THEN [success |-> FALSE, errors |-> << "HTTP " \o ToString(env.response) >>,
          content_checks |-> << >>]
    ELSE IF ~random_is_bound
    THEN [success |-> FALSE,
          errors |-> << AttemptFailed(i, "name 'random' is not defined") >>,
          content_checks |-> << >>]
    ELSE IF ~env.content.returned
    THEN [success |-> FALSE,
          errors |-> << AttemptFailed(i,
                          "'NoneType' object has no attribute 'get'") >>,
          content_checks |-> << env.content >>]
    ELSE IF ~env.content.bodyExists \/ env.content.contentLength < 100
    THEN [success |-> FALSE, errors |-> << "Insufficient content" >>,
          content_checks |-> << env.content >>]
    ELSE IF ~env.bot.returned
    THEN [success |-> FALSE,
          errors |-> << AttemptFailed(i,
                          "'NoneType' object has no attribute 'values'") >>,
          content_checks |-> << env.content >>]
    ELSE IF AnyBot(env.bot)
    THEN [success |-> FALSE,
          errors |->
            IF env.bot.hasCloudflare
            THEN << "Bot detection triggered",
                    AttemptFailed(i, "'BrowserEngine' object has no attribute '_handle_cloudflare_challenge'") >>
            ELSE IF env.bot.hasCaptcha
            THEN << "Bot detection triggered",
                    AttemptFailed(i, "'BrowserEngine' object has no attribute '_handle_captcha_challenge'") >>
            ELSE << "Bot detection triggered" >>,
          content_checks |-> << env.content >>]
    ELSE [success |-> TRUE, errors |-> << >>,
          content_checks |-> << env.content >>]

\* One iteration of the loop over strategies: the body of the try block
\* and its except clause.
NavigationAttempt(i, strategy, env) ==
    IF ~random_is_bound
    THEN \* random.uniform (delay > 0) or random.randint raises NameError
         [success |-> FALSE,
          errors |-> << AttemptFailed(i, "name 'random' is not defined") >>,
          content_checks |-> << >>]
    ELSE IF env.response = Raises
    THEN [success |-> FALSE,
          errors |-> << AttemptFailed(i, "Timeout exceeded") >>,
          content_checks |-> << >>]
    ELSE AfterResponse(i, env)

navigation_metrics_init ==
    [attempts |-> 0, success |-> FALSE, errors |-> << >>,
     content_checks |-> << >>]

(***************************************************************************)
(* Initial values of the components.                                       *)
(***************************************************************************)
NoInfo == << >>
NoResult == << >>

IdentIdle ==
    /\ platform_patterns = platform_patterns_init
    /\ platform_selectors = platform_selectors_init
    /\ platform_info = NoInfo
    /\ prev_platform_info = NoInfo

RunIdle ==
    /\ run_pc = "idle"
    /\ run_page = "none"
    /\ run_locals = {}
    /\ run_k = 1
    /\ navigation_success = FALSE
    /\ navigation_errors = << >>
    /\ run_pending = None
    /\ run_result = NoResult
    /\ run_events = << >>
    /\ arg_coupon_code = ""
    /\ arg_website_url = ""

\* The resources of the session in the initial states: all four are held
\* when the page exists, none is held otherwise.
SessionOfPage == playwright = page /\ browser = page /\ context = page

StageIdle ==
    /\ stage_call = ""
    /\ stage_url = ""
    /\ stage_result = NoResult
    /\ stage_trace = << >>

NavIdle ==
    /\ nav_pc = "idle"
    /\ nav_i = 1
    /\ wait_until = "networkidle"
    /\ nav_session = "none"
    /\ navigation_metrics = navigation_metrics_init
    /\ nav_result = FALSE
    /\ attempt_log = << >>

SubsetsUpTo(S, n) == { T \in SUBSET S : Cardinality(T) <= n }

(***************************************************************************)
(* Browser Session.                                                        *)
(***************************************************************************)
\* The fields of the session in the order in which start assigns them,
\* which is the reverse of the order in which close releases them.
Resources == << "playwright", "browser", "context", "page" >>

Session(pg, ctx, br, pw) ==
    [page |-> pg, context |-> ctx, browser |-> br, playwright |-> pw]

\* BrowserEngine.start: an exception leaves the fields assigned so far
\* (none, the driver, the browser, the context) and start returns False;
\* a failure after line 211 leaves all four set.
start_session ==
    { [session |-> [r \in Range(Resources) |->
                      IF \E i \in 1..level : Resources[i] = r
                      THEN "open" ELSE "none"],
       result |-> ok] :
        level \in 0..Len(Resources), ok \in BOOLEAN }
      \ { o \in [session : [Range(Resources) -> { "open", "none" }],
                  result : { TRUE }] : o.session.page = "none" }

\* BrowserEngine.start as navigate sees it: the launch fails before any
\* field is assigned, or the page is created (a failure after line 211
\* still leaves self.page set).
Start ==
    /\ page = "none"
    /\ nav_pc # "attempting"
    /\ \E o \in { x \in start_session :
                    \A r \in Range(Resources) : x.session[r] = x.session.page } :
         /\ page' = o.session.page
         /\ context' = o.session.context
         /\ browser' = o.session.browser
         /\ playwright' = o.session.playwright
    /\ UNCHANGED << identVars, classifyVars, navVars, runVars, stageVars >>

\* close that releases what is held and leaves the fields as they are.
close_KeepsFields(session, i, trace) ==
    LET order == [j \in 1..Len(Resources) |-> Resources[Len(Resources) + 1 - j]]
        held == SelectSeq(order, LAMBDA r : session[r] = "open")
    IN { [session |-> session,
          trace |-> trace \o [j \in 1..Len(held) |->
                                [op |-> "release", ladder |-> held[j],
                                 selector |-> "", arg |-> 0]],
          raised |-> FALSE] }

\* BrowserEngine.close from the i-th resource on: a resource that is held
\* is released and its field set to None, or its release raises and the
\* except clause of line 769 ends the call.
RECURSIVE close(_, _, _)
close(session, i, trace) ==
    IF i = 0
    THEN { [session |-> session, trace |-> trace, raised |-> FALSE] }
    ELSE IF session[Resources[i]] = "none"
    THEN close(session, i - 1, trace)
    ELSE { [session |-> session,
            trace |-> Append(trace, [op |-> "raise", ladder |-> Resources[i],
                                     selector |-> "", arg |-> 0]),
            raised |-> TRUE] }
           \cup close([session EXCEPT ![Resources[i]] = "none"], i - 1,
                      Append(trace, [op |-> "release", ladder |-> Resources[i],
                                     selector |-> "", arg |-> 0]))

\* BrowserEngine.close as navigate sees it: a close on which no release
\* raises.
Close ==
    /\ page = "open"
    /\ nav_pc # "attempting"
    /\ \E o \in { x \in close(Session(page, context, browser, playwright),
                                Len(Resources), << >>) : ~x.raised } :
         /\ page' = o.session.page
         /\ context' = o.session.context
         /\ browser' = o.session.browser
         /\ playwright' = o.session.playwright
    /\ UNCHANGED << identVars, classifyVars, navVars, runVars, stageVars >>

(***************************************************************************)
(* BrowserEngine.navigate as a state machine.                              *)
(***************************************************************************)
\* Entry of navigate: "if not self.page: return False", then the setup of
\* strategies and navigation_metrics.
NavigateCall ==
    /\ nav_pc \in { "idle", "returned" }
    /\ \E w \in WaitPolicies : wait_until' = w
    /\ nav_session' = page
    /\ navigation_metrics' = navigation_metrics_init
    /\ attempt_log' = << >>
    /\ nav_i' = 1
    /\ nav_result' = FALSE
    /\ nav_pc' = IF page = "none" THEN "returned" ELSE "attempting"
    /\ UNCHANGED << page, identVars, classifyVars, runVars, stageVars,
                    sessionVars >>

\* AfterAttempt that gives up at the first failed attempt.
AfterAttempt_StopOnFailure(outcome) == "returned"

\* What follows an attempt: return True, or the next iteration.
AfterAttempt(outcome) == IF outcome.success THEN "returned" ELSE "attempting"

\* One iteration of "for i, strategy in enumerate(strategies)".
NavigateAttempt ==
    /\ nav_pc = "attempting"
    /\ nav_i <= Len(strategies(wait_until))
    /\ \E env \in Envs :
         LET strategy == strategies(wait_until)[nav_i]
             outcome == NavigationAttempt(nav_i, strategy, env)
         IN /\ navigation_metrics' =
                 [navigation_metrics EXCEPT
                     !.attempts = @ + 1,
                     !.success = outcome.success,
                     !.errors = @ \o outcome.errors,
                     !.content_checks = @ \o outcome.content_checks]
            /\ attempt_log' =
                 Append(attempt_log, [strategy |-> strategy, env |-> env])
            /\ nav_pc' = AfterAttempt(outcome)
            /\ nav_result' = outcome.success
            /\ nav_i' = IF outcome.success THEN nav_i ELSE nav_i + 1
    /\ UNCHANGED << page, wait_until, nav_session, identVars, classifyVars,
                    runVars, stageVars,
                    sessionVars >>

\* The loop is exhausted: "return False".
NavigateExhausted ==
    /\ nav_pc = "attempting"
    /\ nav_i > Len(strategies(wait_until))
    /\ nav_pc' = "returned"
    /\ nav_result' = FALSE
    /\ UNCHANGED << page, nav_i, wait_until, nav_session, navigation_metrics,
                    attempt_log, identVars, classifyVars, runVars,
                    stageVars,
                    sessionVars >>

InitNav ==
    /\ page = "none"
    /\ html_content = {}
    /\ current_url = {}
    /\ dom = << >>
    /\ validation_result = NoResult
    /\ IdentIdle
    /\ NavIdle
    /\ RunIdle
    /\ SessionOfPage
    /\ StageIdle

NextNav ==
    \/ Start
    \/ Close
    \/ NavigateCall
    \/ NavigateAttempt
    \/ NavigateExhausted

SpecNav == InitNav /\ [][NextNav]_vars

(***************************************************************************)
(* WebsitePatternRecognizer.identify_platform on a page.                   *)
(***************************************************************************)
\* The browser shows another page (a navigation between two runs); the
\* pages loaded have at most one token in the HTML and one in the URL, the
\* larger pages are those a run starts on.
PageLoad ==
    /\ \E h \in SubsetsUpTo(PageTokens, 1),
          u \in SubsetsUpTo(PageTokens, 1) :
         /\ << h, u >> # << html_content, current_url >>
         /\ html_content' = h
         /\ current_url' = u
    /\ prev_platform_info' = NoInfo
    /\ platform_info' = NoInfo
    /\ UNCHANGED << page, platform_patterns, platform_selectors,
                    classifyVars, navVars, runVars, stageVars,
                    sessionVars >>

\* IdentifyPlatform that drops the signatures of the platform it detected
\* from the signature table.
IdentifyPlatform_ConsumesPatterns ==
    /\ platform_info' = identify_platform(page, html_content, current_url,
                                          platform_patterns,
                                          platform_selectors)
    /\ prev_platform_info' = platform_info
    /\ platform_patterns' =
         IF platform_info'.platform \in Range(platform_patterns.order)
         THEN [platform_patterns EXCEPT
                  !.map[platform_info'.platform] = << >>]
         ELSE platform_patterns
    /\ UNCHANGED << page, html_content, current_url, platform_selectors,
                    classifyVars, navVars, runVars, stageVars,
                    sessionVars >>

\* A call of identify_platform; prev_platform_info keeps the descriptor of
\* the previous call on the same page.
IdentifyPlatform ==
    /\ platform_info' = identify_platform(page, html_content, current_url,
                                          platform_patterns,
                                          platform_selectors)
    /\ prev_platform_info' = platform_info
    /\ UNCHANGED << page, html_content, current_url, platform_patterns,
                    platform_selectors, classifyVars, navVars, runVars,
                    stageVars,
                    sessionVars >>

InitIdent ==
    /\ page \in { "none", "open" }
    /\ html_content \in SubsetsUpTo(PageTokens, MaxHtmlTokens)
    /\ current_url \in SubsetsUpTo(PageTokens, MaxUrlTokens)
    /\ dom = << >>
    /\ validation_result = NoResult
    /\ IdentIdle
    /\ NavIdle
    /\ RunIdle
    /\ SessionOfPage
    /\ StageIdle

NextIdent ==
    \/ PageLoad
    \/ IdentifyPlatform

SpecIdent == InitIdent /\ [][NextIdent]_vars

(***************************************************************************)
(* validate_coupon, lines 124-151: the AI analysis is merged into the     *)
(* descriptor.  An analysis is [detected_elements, confidence_scores,     *)
(* selectors] (selectors: what get_element_selectors returns per role);   *)
(* a failed analysis has no detected elements.                            *)
(***************************************************************************)
merge_ai_analysis(info, ai) ==
    IF HasKey(ai, "detected_elements") /\ DOMAIN ai.detected_elements # {}
    THEN LET merged ==
               [k \in DOMAIN info |->
                   IF /\ k \in DOMAIN ai.detected_elements
                      /\ Len(info[k]) = 0
                      /\ Len(ai.selectors[k]) > 0
                   THEN ai.selectors[k] \o info[k]
                   ELSE info[k]]
         IN [ai_confidence_scores |-> ai.confidence_scores] @@ merged
    ELSE info

\* Results of AIWebsiteAnalyzer.analyze_website_structure: a failure and
\* detections of the discount element with a confidence in hundredths
\* (_analyze_elements keeps a detection only above 0.7).
AIFailed == [error |-> "analysis failed", detected_elements |-> << >>]

AIDetection(role, confidence) ==
    [detected_elements |-> (role :> "element"),
     confidence_scores |-> (role :> confidence),
     selectors |-> (role :> << "#ai-" \o role >>)]

AIAnalyses ==
    { AIFailed,
      AIDetection("discount_amount", 80),
      AIDetection("discount_amount", 81) }

(***************************************************************************)
(* validate_coupon, lines 120-151, on its own: the descriptor is produced *)
(* by identify_platform and the AI analysis is merged into the same dict. *)
(***************************************************************************)
\* Lines 124-151: analyze_website_structure on the current page (it fails
\* on a session without a page) and the assignments to platform_info.
EnhanceWithAI ==
    /\ platform_info # NoInfo
    /\ ~HasKey(platform_info, "ai_confidence_scores")
    /\ \E ai \in (IF page = "none" THEN { AIFailed } ELSE AIAnalyses) :
         platform_info' = merge_ai_analysis(platform_info, ai)
    /\ UNCHANGED << page, html_content, current_url, platform_patterns,
                    platform_selectors, prev_platform_info, classifyVars,
                    navVars, runVars, stageVars,
                    sessionVars >>

NextEnhance ==
    \/ PageLoad
    \/ IdentifyPlatform
    \/ EnhanceWithAI

SpecEnhance == InitIdent /\ [][NextEnhance]_vars

(***************************************************************************)
(* Pages on which the classifier runs.                                     *)
(***************************************************************************)
Texts == { "", "Coupon code is invalid", "$0.00" }

ElementStates ==
    { [visible |-> FALSE, text |-> ""] }
        \cup { [visible |-> TRUE, text |-> t] : t \in Texts }

\* Selectors with an element on the pages of the model: the first
\* selectors of the woocommerce message ladders, of the generic message
\* ladders, of the generic discount ladder and of the woocommerce discount
\* ladder, and the selector the AI analyzer suggests for the discount.
ProbeSelectors ==
    { ".woocommerce-message", ".woocommerce-error", ".success-message",
      ".error-message", ".discount-amount", ".cart-discount .amount",
      "#ai-discount_amount" }

Doms ==
    UNION { [S -> ElementStates] : S \in SubsetsUpTo(ProbeSelectors, MaxElements) }

\* Landing pages whose descriptors are used (unknown, magento,
\* woocommerce).
DescriptorPages == { {}, { "Mage.Cookies" }, { "wp-content" } }

Descriptors ==
    { merge_ai_analysis(
          identify_platform("open", h, {}, platform_patterns_init,
                            platform_selectors_init), ai) :
        h \in DescriptorPages, ai \in AIAnalyses }

\* The blocks of _check_validation_result in the order they are executed:
\* the two platform-specific ladders (lines 317-338, entered for a ladder
\* the descriptor holds), the two common ladders (lines 340-406) and the
\* call of _extract_discount_amount (line 409).  The entry of a
\* platform-specific ladder records whether it produced a message (1) or
\* not (0).
check_validation_steps(pg, d, html, info) ==
    LET r0 == [is_valid |-> FALSE, discount_amount |-> None,
               success_message |-> None, error_message |-> None]
        ps == PlatformMessage(pg, d, info, "coupon_success")
        r1 == IF ps # None THEN RecordSuccess(r0, ps) ELSE r0
        pe == PlatformMessage(pg, d, info, "coupon_error")
        r2 == IF pe # None THEN RecordError(r1, pe) ELSE r1
        rung(role, tag) ==
            IF platform_ladder(info, role) # << >>
            THEN << Op("ladder", tag, platform_ladder(info, role)[1],
                       IF PlatformMessage(pg, d, info, role) # None
                       THEN 1 ELSE 0) >>
            ELSE << >>
    IN rung("coupon_success", "platform_success")
         \o rung("coupon_error", "platform_error")
         \o (IF generic_needed(r2)
             THEN << Op("ladder", "generic_success", success_selectors[1], 0),
                     Op("ladder", "generic_error", error_selectors[1], 0) >>
             ELSE << >>)
         \o << Op("_extract_discount_amount", "discount", "", 0) >>

\* A call of _check_validation_result on the current page.
CheckValidationResult ==
    /\ validation_result' =
         _check_validation_result(page, dom, html_content, platform_info)
    /\ stage_call' = "_check_validation_result"
    /\ stage_trace' =
         check_validation_steps(page, dom, html_content, platform_info)
    /\ UNCHANGED << page, dom, identVars, navVars, runVars, stage_url,
                    stage_result, sessionVars >>

ClassifyInputs ==
    /\ html_content \in { { "checkout/cart" },
                          { "checkout/cart", "Discount: $12.34" } }
    /\ current_url = { "checkout/cart" }
    /\ dom \in Doms
    /\ platform_patterns = platform_patterns_init
    /\ platform_selectors = platform_selectors_init
    /\ platform_info \in Descriptors
    /\ prev_platform_info = NoInfo
    /\ validation_result = NoResult
    /\ NavIdle
    /\ RunIdle
    /\ SessionOfPage
    /\ StageIdle

InitClassify == page = "open" /\ ClassifyInputs

NextClassify ==
    \/ CheckValidationResult
    \/ Close

SpecClassify == InitClassify /\ [][NextClassify]_vars

(***************************************************************************)
(* ResultReporter.format_result                                            *)
(***************************************************************************)
format_result(coupon_code, website_url, is_valid, status_message, error_message, discount_amount, screenshot_path) ==
    [coupon_code |-> coupon_code, website_url |-> website_url,
     timestamp |-> "now", is_valid |-> is_valid, status |-> status_message]
      @@ (IF Truthy(error_message)
          THEN [error_message |-> error_message] ELSE << >>)
      @@ (IF Truthy(discount_amount)
          THEN [discount_amount |-> discount_amount] ELSE << >>)
      @@ (IF Truthy(screenshot_path)
          THEN [screenshot_path |-> screenshot_path] ELSE << >>)

(***************************************************************************)
(* The keys the repository's test scripts read from the result of         *)
(* validate_coupon.                                                       *)
(***************************************************************************)
\* tests/test_coupon_validator.py, run_tests: result.get('success', False)
run_tests_keys == { "success" }

\* test_ai_validation.py, test_validation: result['platform'], ...
test_validation_keys ==
    { "platform", "is_valid", "message", "discount_amount",
      "execution_steps", "error" }

(***************************************************************************)
(* validate_coupon (main.py).                                              *)
(***************************************************************************)
CouponCode == "SAVE10"
WebsiteUrl == "https://shop.example/"

\* Coupon codes given to validate_coupon: empty, of 1, 6 and 51 characters.
CouponCodes ==
    { "", "X", CouponCode,
      "AAAAAAAAAAAAAAAAAAAAAAAAAAAAAAAAAAAAAAAAAAAAAAAAAAA" }

\* URLs given to validate_coupon, and urllib.parse.urlparse on them.
WebsiteUrls == { "", WebsiteUrl, "shop.example", "https://" }

urlparse(url) ==
    CASE url = "https://shop.example/" ->
           [scheme |-> "https", netloc |-> "shop.example"]
      [] url = "shop.example" -> [scheme |-> "", netloc |-> ""]
      [] url = "https://" -> [scheme |-> "https", netloc |-> ""]
      [] OTHER -> [scheme |-> "", netloc |-> ""]

\* InputHandler.validate_inputs
validate_inputs(code, url) ==
    IF code = "" \/ url = "" THEN FALSE
    ELSE IF Len(code) < 2 \/ Len(code) > 50 THEN FALSE
    ELSE IF urlparse(url).scheme = "" \/ urlparse(url).netloc = "" THEN FALSE
    ELSE TRUE

\* The calls of validate_coupon: at most one argument is invalid.
RunInputs ==
    { [coupon_code |-> c, website_url |-> WebsiteUrl] : c \in CouponCodes }
        \cup { [coupon_code |-> CouponCode, website_url |-> u] :
                 u \in WebsiteUrls }

\* The list strategies of validate_coupon with the policies reversed.
RunStrategies_LoadFirst == << "load", "domcontentloaded", "networkidle" >>

\* The list strategies of validate_coupon.
RunStrategies == << "networkidle", "domcontentloaded", "load" >>

\* navigate as one call: the loop over the five strategies, the site
\* answering attempt i with envs[i].
RECURSIVE NavigateFrom(_, _, _)
NavigateFrom(i, strats, envs) ==
    IF i > Len(strats) THEN FALSE
    ELSE IF NavigationAttempt(i, strats[i], envs[i]).success THEN TRUE
    ELSE NavigateFrom(i + 1, strats, envs)

navigate(pg, wait, envs) ==
    IF pg = "none" THEN FALSE ELSE NavigateFrom(1, strategies(wait), envs)

\* '; '.join(navigation_errors)
RECURSIVE Join(_, _)
Join(errors, i) ==
    IF i > Len(errors) THEN ""
    ELSE IF i = Len(errors) THEN errors[i]
    ELSE errors[i] \o "; " \o Join(errors, i + 1)

\* Results a stage (find_and_select_product, add_to_cart,
\* navigate_to_checkout) can return.
StageOK == [success |-> TRUE]
StageResults(error) == { StageOK, [success |-> FALSE, error |-> error] }

\* apply_coupon seen from validate_coupon: the coupon field is not found,
\* an exception is caught, or the page is classified.
apply_coupon(outcome, pg, d, html, info) ==
    CASE outcome = "no_field" ->
           [success |-> FALSE, error |-> "Could not find coupon input field"]
      [] outcome = "raises" ->
           [success |-> FALSE, error |-> "Error applying coupon: timeout"]
      [] OTHER ->
           [success |-> TRUE] @@ _check_validation_result(pg, d, html, info)

\* os.path.join(output_dir, f"{timestamp_str}_{arg_coupon_code}_result.png")
ScreenshotPath == "./output/now_" \o arg_coupon_code \o "_result.png"

\* Lines 120-237 of validate_coupon, reached when the navigation
\* succeeded: the result and the collaborators called.
pipeline(pg, d, html, url, ai, product, cart, checkout, coupon) ==
    LET identified == identify_platform(pg, html, url, platform_patterns,
                                        platform_selectors)
        info == IF ai = None THEN identified
                ELSE merge_ai_analysis(identified, ai)
        coupon_result == apply_coupon(coupon, pg, d, html, info)
    IN IF ~product.success
       THEN [result |-> format_result(arg_coupon_code, arg_website_url, FALSE,
                           "Product selection failed", product.error,
                           None, None),
             events |-> << "identify_platform", "find_and_select_product" >>]
       ELSE IF ~cart.success
       THEN [result |-> format_result(arg_coupon_code, arg_website_url, FALSE,
                           "Adding to cart failed", cart.error, None, None),
             events |-> << "identify_platform", "find_and_select_product",
                           "add_to_cart" >>]
       ELSE IF ~checkout.success
       THEN [result |-> format_result(arg_coupon_code, arg_website_url, FALSE,
                           "Checkout navigation failed", checkout.error,
                           None, None),
             events |-> << "identify_platform", "find_and_select_product",
                           "add_to_cart", "navigate_to_checkout" >>]
       ELSE IF ~coupon_result.success
       THEN [result |-> format_result(arg_coupon_code, arg_website_url, FALSE,
                           "Coupon application failed", coupon_result.error,
                           None, ScreenshotPath),
             events |-> << "identify_platform", "find_and_select_product",
                           "add_to_cart", "navigate_to_checkout",
                           "apply_coupon" >>]
       ELSE [result |-> format_result(arg_coupon_code, arg_website_url,
                           coupon_result.is_valid,
                           "Coupon validation complete",
                           coupon_result.error_message,
                           coupon_result.discount_amount, ScreenshotPath),
             events |-> << "identify_platform", "find_and_select_product",
                           "add_to_cart", "navigate_to_checkout",
                           "apply_coupon", "save_result",
                           "generate_report" >>]

\* The texts of the exceptions the constructors can raise: os.makedirs of
\* the model directory (AIWebsiteAnalyzer) and of the output directory
\* (ResultReporter).
ExceptionTexts == { "model directory", "output directory" }

\* Lines 52-78: input validation (its return value is not used), the
\* constructors and start().  A constructor may raise: AIWebsiteAnalyzer
\* creates its model directory, ResultReporter its output directory.
RunBegin ==
    /\ run_pc = "idle"
    /\ \E input \in RunInputs :
         /\ arg_coupon_code' = input.coupon_code
         /\ arg_website_url' = input.website_url
    /\ \E outcome \in { "ok", "analyzer_raises", "reporter_raises" } :
         \/ /\ outcome = "ok"
            /\ run_page' \in { "none", "open" }
            /\ run_locals' = { "browser_engine", "result_reporter",
                               "screenshot_path" }
            /\ run_pending' = None
            /\ run_pc' = "navigating"
            /\ run_events' = << "validate_inputs", "start" >>
         \/ /\ outcome = "analyzer_raises"
            /\ run_page' = "none"
            /\ run_locals' = { "browser_engine" }
            /\ run_pending' = "model directory"
            /\ run_pc' = "except"
            /\ run_events' = << "validate_inputs", "raise:model directory" >>
         \/ /\ outcome = "reporter_raises"
            /\ run_page' = "none"
            /\ run_locals' = { "browser_engine" }
            /\ run_pending' = "output directory"
            /\ run_pc' = "except"
            /\ run_events' = << "validate_inputs", "raise:output directory" >>
    /\ run_k' = 1
    /\ navigation_success' = FALSE
    /\ navigation_errors' = << >>
    /\ run_result' = NoResult
    /\ UNCHANGED << page, identVars, classifyVars, navVars, stageVars,
                    sessionVars >>

\* One iteration of "for strategy in strategies" (lines 92-109); navigate
\* catches what its attempts raise and returns a bool.
RunNavigate ==
    /\ run_pc = "navigating"
    /\ run_k <= Len(RunStrategies)
    /\ ~navigation_success
    /\ \E env \in Envs :
         LET ok == navigate(run_page, RunStrategies[run_k], [i \in 1..5 |-> env])
         IN /\ navigation_success' = ok
            /\ navigation_errors' =
                 IF ok THEN navigation_errors
                 ELSE Append(navigation_errors,
                             "Navigation failed with strategy: "
                                 \o RunStrategies[run_k])
    /\ run_k' = run_k + 1
    /\ run_events' = Append(run_events, "navigate:" \o RunStrategies[run_k])
    /\ UNCHANGED << page, run_page, run_pc, run_locals, run_pending, run_result,
                    arg_coupon_code, arg_website_url, identVars, classifyVars,
                    navVars, stageVars,
                    sessionVars >>

\* Lines 111-237: the loop is over (break or exhaustion); the navigation
\* failure result, or the pipeline.
RunAfterNavigation ==
    /\ run_pc = "navigating"
    /\ navigation_success \/ run_k > Len(RunStrategies)
    /\ IF ~navigation_success
       THEN /\ run_result' =
                 format_result(arg_coupon_code, arg_website_url, FALSE,
                     "Navigation failed",
                     "Failed to navigate to the website after multiple attempts: "
                         \o Join(navigation_errors, 1), None, None)
            /\ run_events' = run_events
       ELSE \E ai \in AIAnalyses \cup { None },
               product \in StageResults("Could not find any products on the page"),
               cart \in StageResults("Could not find add to cart button"),
               checkout \in StageResults("Could not find checkout button"),
               coupon \in { "no_field", "raises", "classified" } :
              LET p == pipeline(run_page, dom, html_content, current_url, ai,
                                product, cart, checkout, coupon)
              IN /\ run_result' = p.result
                 /\ run_events' = run_events \o p.events
    /\ run_pc' = "finally"
    /\ UNCHANGED << page, run_page, run_locals, run_k, navigation_success,
                    navigation_errors, run_pending, arg_coupon_code, arg_website_url,
                    identVars, classifyVars, navVars, stageVars,
                    sessionVars >>

\* The except clause (lines 239-266).
RunExcept ==
    /\ run_pc = "except"
    /\ IF run_pending = "output directory"
       THEN \* ResultReporter(output_dir) raises again
            /\ run_result' = NoResult
            /\ run_pending' = run_pending
            /\ run_events' = Append(run_events, "raise:" \o run_pending)
            /\ run_locals' = run_locals
       ELSE /\ run_result' = format_result(arg_coupon_code, arg_website_url, FALSE,
                                 "Validation error", run_pending, None, None)
            /\ run_pending' = None
            /\ run_events' = run_events \o << "save_result", "generate_report" >>
            /\ run_locals' = run_locals \cup { "result_reporter" }
    /\ run_pc' = "finally"
    /\ UNCHANGED << page, run_page, run_k, navigation_success,
                    navigation_errors, arg_coupon_code, arg_website_url, identVars,
                    classifyVars, navVars, stageVars,
                    sessionVars >>

\* RunFinally that releases the session only when no exception is in
\* flight.
RunFinally_SkipsCloseOnError ==
    /\ run_pc = "finally"
    /\ IF "browser_engine" \in run_locals /\ run_pending = None
       THEN /\ run_page' = "none"
            /\ run_events' = Append(run_events, "close")
            /\ run_pending' = run_pending
            /\ run_pc' = "returned"
            /\ run_result' = run_result
       ELSE /\ run_page' = run_page
            /\ run_events' = run_events
            /\ run_pending' = run_pending
            /\ run_pc' = "raised"
            /\ run_result' = NoResult
    /\ UNCHANGED << page, run_locals, run_k, navigation_success,
                    navigation_errors, arg_coupon_code, arg_website_url, identVars,
                    classifyVars, navVars, stageVars,
                    sessionVars >>

\* The finally clause (lines 268-271) and the exit of the function.
RunFinally ==
    /\ run_pc = "finally"
    /\ IF "browser_engine" \in run_locals
       THEN /\ run_page' = "none"
            /\ run_events' = Append(run_events, "close")
            /\ run_pending' = run_pending
            /\ run_pc' = IF run_pending = None THEN "returned" ELSE "raised"
            /\ run_result' = IF run_pending = None THEN run_result ELSE NoResult
       ELSE /\ run_page' = run_page
            /\ run_events' = run_events
            /\ run_pending' = "local variable 'browser_engine' referenced before assignment"
            /\ run_pc' = "raised"
            /\ run_result' = NoResult
    /\ UNCHANGED << page, run_locals, run_k, navigation_success,
                    navigation_errors, arg_coupon_code, arg_website_url, identVars,
                    classifyVars, navVars, stageVars,
                    sessionVars >>

\* The pages of the runs: elements on the first generic message and
\* discount selectors.
RunSelectors ==
    { ".success-message", ".error-message", ".discount-amount" }

InitRun ==
    /\ InitClassify
    /\ DOMAIN dom \subseteq RunSelectors
    /\ html_content = { "checkout/cart" }
    /\ ~HasKey(platform_info, "ai_confidence_scores")

NextRun ==
    \/ CheckValidationResult
    \/ RunBegin
    \/ RunNavigate
    \/ RunAfterNavigation
    \/ RunExcept
    \/ RunFinally

SpecRun == InitRun /\ [][NextRun]_vars

(***************************************************************************)
(* The stages on a page: ProductSelector, CartNavigator, CouponApplicator. *)
(* A stage is called with the session, the descriptor and the page the     *)
(* session shows; stage_trace records the operations it makes on the       *)
(* session, each with the loop of the code (ladder) that made it.          *)
(***************************************************************************)
\* Largest number of candidates (grid elements, product links) on a page.
MaxCount == 11

Min(a, b) == IF a < b THEN a ELSE b

\* BrowserEngine.click: without a page False; with a page the last
\* fallback, a scripted click through execute_javascript (which raises
\* nothing), is followed by "return True".
click(pg, selector) == pg # "none"

\* BrowserEngine.wait_for_navigation and take_screenshot return a bool
\* and raise nothing.
wait_for_navigation == Op("wait_for_navigation", "", "", 0)

\* "for selector in ladder: if await browser_engine.is_visible(selector)":
\* the index of the first visible selector, 0 when there is none.
RECURSIVE FirstVisibleIndex(_, _, _, _)
FirstVisibleIndex(pg, d, ladder, i) ==
    IF i > Len(ladder) THEN 0
    ELSE IF is_visible(pg, d, ladder[i]) THEN i
    ELSE FirstVisibleIndex(pg, d, ladder, i + 1)

\* The calls of is_visible made by such a loop.
Probes(pg, d, ladder, tag) ==
    LET k == FirstVisibleIndex(pg, d, ladder, 1)
        n == IF k = 0 THEN Len(ladder) ELSE k
    IN [i \in 1..n |-> Op("is_visible", tag, ladder[i], 0)]

\* The URLs a stage is called on, and str.__contains__ / String.includes
\* on them.
HomeUrl == "https://shop.example/"
ProductUrl == "https://shop.example/products/1"
CartUrl == "https://shop.example/cart"
CheckoutUrl == "https://shop.example/checkout"
StageUrls == { HomeUrl, ProductUrl, CartUrl, CheckoutUrl }

url_includes(url, token) ==
    CASE url = ProductUrl -> token \in { "product", "/products/" }
      [] url = CartUrl -> token \in { "cart" }
      [] url = CheckoutUrl -> token \in { "checkout" }
      [] OTHER -> FALSE


\* ProductSelector._check_if_product_page, lines 217-243
product_page_indicators ==
    << ".add-to-cart", ".add_to_cart", "#add-to-cart", "#add_to_cart",
       "button:has-text(\"Add to Cart\")",
       "button:has-text(\"Add to cart\")",
       "button:has-text(\"Add to Bag\")", "button:has-text(\"Buy Now\")",
       ".product-details", ".product-info", ".product-description",
       ".product_description", ".product-title", ".product_title",
       ".product-price", ".product_price", ".product-gallery",
       ".product-image-gallery", ".product-images", ".product_images" >>

\* ProductSelector.find_and_select_product, lines 52-89
common_product_selectors ==
    << ".product", ".product-item", ".product-card", ".product-grid-item",
       ".product-list-item", ".item.product", ".card.product",
       "li.product", "div.product", ".product-container",
       ".product-wrapper", ".product-box", ".product-block",
       ".product-cell", ".product-thumbnail", ".product-teaser",
       ".product-preview", ".product-tile", ".catalog-product",
       ".shop-product", ".collection-item", ".item-card",
       ".product-item-info", ".product-thumb", ".product-layout",
       ".grid-item", ".grid-product", ".grid__item",
       ".collection-grid-item", ".product-collection", ".product-single",
       ".product-miniature", ".thumbnail-container", ".card-product",
       ".product-miniature" >>

Outcome(result, trace, url) == [result |-> result, trace |-> trace, url |-> url]

take_screenshot == Op("take_screenshot", "", "", 0)

\* The page after a click on a product: the click may have had no effect.
AfterProductClick(url) == { url, ProductUrl }

\* Numbers of candidates a page can have.
CandidateCounts == { 1, MaxCount - 1, MaxCount }

\* random.randint(0, 9): the index is not limited by the candidates.
random_index_Unclamped(n) == 0 .. 9

\* random.randint(0, min(n - 1, 9)): both ends are included.
random_index(n) == 0 .. Min(n - 1, 9)

\* The script of lines 248-255 on the URL of the page.
url_check(url) ==
    \/ url_includes(url, "product")
    \/ url_includes(url, "/p/")
    \/ url_includes(url, "/products/")
    \/ url_includes(url, "item")
    \/ url_includes(url, "detail")

\* _check_if_product_page that never recognises a product page.
_check_if_product_page_Never(pg, d, url, evaluates) ==
    [value |-> FALSE,
     trace |-> Probes(pg, d, product_page_indicators, "indicator")]

\* ProductSelector._check_if_product_page; evaluates: whether the page
\* evaluates the script (execute_javascript returns None otherwise).
_check_if_product_page(pg, d, url, evaluates) ==
    LET probes == Probes(pg, d, product_page_indicators, "indicator")
    IN IF FirstVisibleIndex(pg, d, product_page_indicators, 1) > 0
       THEN [value |-> TRUE, trace |-> probes]
       ELSE LET found == pg # "none" /\ evaluates /\ url_check(url)
            IN [value |-> found,
                trace |-> Append(probes,
                            Op("execute_javascript", "url_check", "",
                               IF found THEN 1 ELSE 0))]

\* "for selector in ladder: elements = query_selector_all(selector);
\* if elements: break": index of the first selector that matches, 0 when
\* there is none, and the calls made (n elements are matched).
RECURSIVE FirstMatchIndex(_, _, _)
FirstMatchIndex(d, ladder, i) ==
    IF i > Len(ladder) THEN 0
    ELSE IF ladder[i] \in DOMAIN d THEN i
    ELSE FirstMatchIndex(d, ladder, i + 1)

Queries(d, ladder, tag, n) ==
    LET k == FirstMatchIndex(d, ladder, 1)
        last == IF k = 0 THEN Len(ladder) ELSE k
    IN [i \in 1..last |->
          Op("query_selector_all", tag, ladder[i], IF i = k THEN n ELSE 0)]

\* ProductSelector._last_resort_product_selection: two scripts that click.
_last_resort_product_selection(url) ==
    { Outcome(StageOK,
              << Op("script_click", "image_link", "", 0),
                 wait_for_navigation >>, u) : u \in AfterProductClick(url) }
      \cup
    { Outcome(StageOK,
              << Op("execute_javascript", "image_link", "", 0),
                 Op("script_click", "product_class", "", 0),
                 wait_for_navigation >>, u) : u \in AfterProductClick(url) }
      \cup
    { Outcome([success |-> FALSE,
               error |-> "Last resort product selection failed"],
              << Op("execute_javascript", "image_link", "", 0),
                 Op("execute_javascript", "product_class", "", 0) >>, url) }

\* Lines 190-196: the last resort and the failure of the stage.
LastResort(trace, url) ==
    { Outcome(IF o.result.success THEN o.result
              ELSE [success |-> FALSE,
                    error |-> "Could not find any products on the page"],
              trace \o o.trace, o.url) :
        o \in _last_resort_product_selection(url) }

\* Lines 92-170: the script that counts the product links (n of them) and
\* the script that clicks the link at random_index.
LinkScan(trace, url, n) ==
    IF n = 0
    THEN LastResort(Append(trace,
                       Op("execute_javascript", "link_count", "", 0)), url)
    ELSE UNION {
           LET scanned == trace \o
                 << Op("execute_javascript", "link_count", "", n),
                    Op("random.randint", "links", "", idx) >>
           IN { Outcome(StageOK,
                        scanned \o << Op("script_click", "links", "", idx),
                                      wait_for_navigation >>, u) :
                  u \in AfterProductClick(url) }
                \cup LastResort(Append(scanned,
                        Op("execute_javascript", "link_click", "", idx)), url)
           : idx \in random_index(n) }

\* Lines 173-188: a product element is chosen and its inner link, or the
\* element itself, is clicked; the click may raise.
ClickProductElement(trace, selector, url, n) ==
    UNION {
      LET chosen == Append(trace, Op("random.randint", "grid", selector, idx))
      IN { Outcome(StageOK,
                   chosen \o << Op("element.click", target, selector, idx),
                                wait_for_navigation >>, u) :
             u \in AfterProductClick(url) }
           \cup
         { Outcome([success |-> FALSE,
                    error |-> "Error finding and selecting product: "
                                \o "Timeout 30000ms exceeded."],
                   Append(chosen, Op("element.click", target, selector, idx)),
                   url) }
      : idx \in random_index(n), target \in { "link", "element" } }

\* Lines 38-196 on a session with a page.
SelectFromPage(trace, d, info, url, n) ==
    LET platform == platform_ladder(info, "product_grid")
        pk == FirstMatchIndex(d, platform, 1)
        gk == IF pk > 0 THEN 0
              ELSE FirstMatchIndex(d, common_product_selectors, 1)
        searched ==
          trace \o Queries(d, platform, "platform", n)
                \o (IF pk > 0 THEN << >>
                    ELSE Queries(d, common_product_selectors, "generic", n))
    IN IF pk > 0
       THEN ClickProductElement(searched, platform[pk], url, n)
       ELSE IF gk > 0
       THEN ClickProductElement(searched, common_product_selectors[gk], url, n)
       ELSE UNION { LinkScan(searched, url, m) : m \in { 0, n } }

\* ProductSelector.find_and_select_product: the outcomes of a call.
find_and_select_product(pg, d, info, url) ==
    UNION {
      LET check == _check_if_product_page(pg, d, url, evaluates)
          checked == << take_screenshot >> \o check.trace
      IN IF check.value
         THEN { Outcome(StageOK, checked, url) }
         ELSE IF pg = "none"
         THEN \* browser_engine.page is None
              { Outcome([success |-> FALSE,
                         error |-> "Error finding and selecting product: "
                            \o "'NoneType' object has no attribute "
                            \o "'query_selector_all'"],
                        checked, url) }
         ELSE UNION { SelectFromPage(checked, d, info, url, n) :
                        n \in CandidateCounts }
      : evaluates \in BOOLEAN }

(***************************************************************************)
(* Pages on which the stages are called.                                   *)
(***************************************************************************)
\* Elements of a page: matched by their selector, visible or not.
StageElements ==
    { [visible |-> v, text |-> ""] : v \in BOOLEAN }

StageDoms(selectors) ==
    UNION { [S -> StageElements] : S \in SubsetsUpTo(selectors, MaxElements) }

\* Descriptors of pages that are unknown, magento and woocommerce.
StageDescriptors ==
    { identify_platform("open", h, {}, platform_patterns_init,
                        platform_selectors_init) : h \in DescriptorPages }

\* The session shows a page of the shop, or has no page (start failed and
\* identify_platform returned the error descriptor).
StageInputs(selectors, urls) ==
    /\ \/ /\ page = "open"
          /\ dom \in StageDoms(selectors)
          /\ platform_info \in StageDescriptors
          /\ stage_url \in urls
       \/ /\ page = "none"
          /\ dom = << >>
          /\ platform_info =
               identify_platform("none", {}, {}, platform_patterns_init,
                                 platform_selectors_init)
          /\ stage_url = None
    /\ html_content = {}
    /\ current_url = {}
    /\ platform_patterns = platform_patterns_init
    /\ platform_selectors = platform_selectors_init
    /\ prev_platform_info = NoInfo
    /\ validation_result = NoResult
    /\ stage_call = ""
    /\ stage_result = NoResult
    /\ stage_trace = << >>
    /\ NavIdle
    /\ RunIdle
    /\ SessionOfPage

\* The page a product link leads to.
ProductPage == ".add-to-cart" :> [visible |-> TRUE, text |-> ""]

\* First and last product-page indicator, first and last selector of the
\* woocommerce grid ladder, first selector of the magento grid ladder and
\* two selectors of the generic grid ladder.
ProductSelectors ==
    { ".add-to-cart", ".product_images", ".products .product",
      ".wc-block-grid__products .wc-block-grid__product",
      ".products-grid .product-item", ".product", ".card-product" }

\* A call of find_and_select_product on the current page.
FindAndSelectProduct ==
    /\ stage_call = ""
    /\ \E o \in find_and_select_product(page, dom, platform_info, stage_url) :
         /\ stage_result' = o.result
         /\ stage_trace' = o.trace
         /\ stage_url' = o.url
         /\ dom' = IF o.url = stage_url THEN dom ELSE ProductPage
    /\ stage_call' = "find_and_select_product"
    /\ UNCHANGED << page, validation_result, identVars, navVars, runVars,
                    sessionVars >>

InitProduct == StageInputs(ProductSelectors, { HomeUrl, ProductUrl })

NextProduct == FindAndSelectProduct

SpecProduct == InitProduct /\ [][NextProduct]_vars

(***************************************************************************)
(* ProductSelector.add_to_cart.                                            *)
(***************************************************************************)

\* ProductSelector._handle_product_options, lines 459-470
size_selectors ==
    << "select[id*=\"size\"]", "select[name*=\"size\"]",
       "select[id*=\"Size\"]", "select[name*=\"Size\"]",
       ".size-options select", ".size-selector select", ".size-dropdown",
       ".swatch-attribute-size select", "#attribute92", "#attribute180" >>

\* ProductSelector._handle_product_options, lines 509-520
color_selectors ==
    << "select[id*=\"color\"]", "select[name*=\"color\"]",
       "select[id*=\"Color\"]", "select[name*=\"Color\"]",
       ".color-options select", ".color-selector select",
       ".color-dropdown", ".swatch-attribute-color select", "#attribute93",
       "#attribute92" >>

\* ProductSelector._handle_product_options, lines 559-570
quantity_selectors ==
    << "input[name=\"qty\"]", "input[id=\"qty\"]",
       "input[name*=\"quantity\"]", "input[id*=\"quantity\"]",
       "input[name*=\"Quantity\"]", "input[id*=\"Quantity\"]",
       ".quantity input", ".qty-input", ".quantity-selector input",
       ".quantity-field" >>

\* ProductSelector.add_to_cart, lines 364-390
add_to_cart_selectors ==
    << "#product-addtocart-button", ".add-to-cart-button", ".add-to-cart",
       ".add_to_cart", "#add-to-cart", "#add_to_cart",
       "button:has-text(\"Add to Cart\")",
       "button:has-text(\"Add to cart\")",
       "button:has-text(\"Add to Bag\")",
       "button:has-text(\"Add to bag\")",
       "button:has-text(\"Add to Basket\")",
       "button:has-text(\"Add to basket\")",
       "button:has-text(\"Buy Now\")", "button:has-text(\"Buy now\")",
       "input[value=\"Add to Cart\"]", "input[value=\"Add to cart\"]",
       "a:has-text(\"Add to Cart\")", "a:has-text(\"Add to cart\")",
       ".btn-cart", ".btn-add-to-cart", ".button-add-to-cart",
       ".product-add-to-cart", ".product-add-form button",
       ".product-info-button button", ".product-actions button" >>

\* ProductSelector._navigate_to_cart_if_needed, lines 598-616
cart_navigation_selectors ==
    << "a:has-text(\"View Cart\")", "a:has-text(\"View cart\")",
       "a:has-text(\"Go to Cart\")", "a:has-text(\"Go to cart\")",
       "button:has-text(\"View Cart\")", "button:has-text(\"View cart\")",
       "button:has-text(\"Go to Cart\")",
       "button:has-text(\"Go to cart\")", ".view-cart",
       ".view-cart-button", ".go-to-cart", ".go-to-cart-button",
       ".cart-link", ".cart-button", "#top-cart",
       ".minicart-wrapper .action.showcart",
       ".minicart-wrapper a.action.viewcart" >>

\* "for selector in ladder: if is_visible(selector): if click(selector)":
\* the probes, the click on the first visible selector and whether a
\* click returned True (a click on a visible element always does).
ClickWalk(pg, d, ladder, tag) ==
    LET k == FirstVisibleIndex(pg, d, ladder, 1)
    IN IF k = 0
       THEN [hit |-> FALSE, trace |-> Probes(pg, d, ladder, tag)]
       ELSE [hit |-> click(pg, ladder[k]),
             trace |-> Append(Probes(pg, d, ladder, tag),
                              Op("click", tag, ladder[k], 0))]

\* One of the loops of _handle_product_options over the size or colour
\* selectors: on the first visible one, the script that tells a select
\* from a swatch list and the script that sets an option (w = 1 when the
\* scripts evaluate, 0 when execute_javascript returns None).
OptionWalk(pg, d, ladder, tag, w) ==
    LET k == FirstVisibleIndex(pg, d, ladder, 1)
    IN Probes(pg, d, ladder, tag)
         \o (IF k = 0 THEN << >>
             ELSE << Op("execute_javascript", tag, ladder[k], w),
                     Op("set_option", tag, ladder[k], w) >>)

\* ProductSelector._handle_product_options: returns nothing, raises
\* nothing.
_handle_product_options(pg, d, works) ==
    LET w == IF works THEN 1 ELSE 0
        k == FirstVisibleIndex(pg, d, quantity_selectors, 1)
    IN OptionWalk(pg, d, size_selectors, "size", w)
         \o OptionWalk(pg, d, color_selectors, "color", w)
         \o Probes(pg, d, quantity_selectors, "quantity")
         \o (IF k = 0 THEN << >>
             ELSE << Op("fill", "quantity", quantity_selectors[k], w) >>)

\* Lines 659-677: the conventional cart paths tried by direct navigation.
cart_urls ==
    << "/cart", "/basket", "/bag", "/checkout/cart", "/shop/cart",
       "/shopping-cart" >>

\* A URL without "//": current_url.split('/')[2] raises IndexError.
BlankUrl == "about:blank"

\* What browser_engine.navigate(cart_url) can return.
NavigateResults(pg) ==
    { navigate(pg, "networkidle", [i \in 1..5 |-> env]) : env \in Envs }

\* "for cart_url in cart_urls: if await browser_engine.navigate(cart_url):
\* return".
DirectCartNavigation(pg, url) ==
    { [trace |-> [i \in 1..c.k |->
                    Op("navigate", "cart_url", cart_urls[i],
                       IF i = c.k /\ c.ok THEN 1 ELSE 0)],
       url |-> IF c.ok THEN CartUrl ELSE url] :
        c \in { x \in [k : 1..Len(cart_urls), ok : NavigateResults(pg)] :
                   x.ok \/ x.k = Len(cart_urls) } }

\* ProductSelector._navigate_to_cart_if_needed: returns nothing; what it
\* raises is caught at lines 680-682.
_navigate_to_cart_if_needed(pg, d, url) ==
    LET start == << Op("get_current_url", "", "", 0) >>
        walk == ClickWalk(pg, d, cart_navigation_selectors, "cart_navigation")
    IN IF url # None /\ url_includes(url, "cart")
       THEN { [trace |-> start, url |-> url] }
       ELSE IF walk.hit
       THEN { [trace |-> start \o walk.trace \o << wait_for_navigation >>,
               url |-> u] : u \in { url, CartUrl } }
       ELSE (IF pg = "none" THEN {}
             ELSE { [trace |-> start \o walk.trace
                          \o << Op("script_click", "cart_link", "", 0),
                                wait_for_navigation >>,
                     url |-> u] : u \in { url, CartUrl } })
              \cup
            (LET scanned == start \o walk.trace
                      \o << Op("execute_javascript", "cart_link", "", 0),
                            Op("get_current_url", "", "", 0) >>
             IN IF url = None
                THEN { [trace |-> scanned, url |-> url] }
                ELSE IF url = BlankUrl
                THEN { [trace |-> Append(scanned,
                                    Op("raise", "_navigate_to_cart_if_needed",
                                       "list index out of range", 0)),
                        url |-> url] }
                ELSE { [trace |-> scanned \o n.trace, url |-> n.url] :
                         n \in DirectCartNavigation(pg, url) })

\* A stage that succeeds only when the cart page was reached.
AfterAddToCartClick_RequiresCart(trace, pg, d, url) ==
    { Outcome(IF n.url # None /\ url_includes(n.url, "cart") THEN StageOK
              ELSE [success |-> FALSE,
                    error |-> "Could not navigate to cart"],
              trace \o << wait_for_navigation >> \o n.trace, n.url) :
        n \in _navigate_to_cart_if_needed(pg, d, url) }

\* Lines 354-360: after a click on an add-to-cart control.
AfterAddToCartClick(trace, pg, d, url) ==
    { Outcome(StageOK, trace \o << wait_for_navigation >> \o n.trace, n.url) :
        n \in _navigate_to_cart_if_needed(pg, d, url) }

\* ProductSelector.add_to_cart: the outcomes of a call.
add_to_cart(pg, d, info, url) ==
    UNION {
      LET head == << take_screenshot >> \o _handle_product_options(pg, d, works)
          platform == ClickWalk(pg, d, platform_ladder(info, "add_to_cart"),
                                "platform")
          generic == ClickWalk(pg, d, add_to_cart_selectors, "generic")
      IN IF platform.hit
         THEN AfterAddToCartClick(head \o platform.trace, pg, d, url)
         ELSE IF generic.hit
         THEN AfterAddToCartClick(head \o platform.trace \o generic.trace,
                                  pg, d, url)
         ELSE (IF pg = "none" THEN {}
               ELSE AfterAddToCartClick(
                      head \o platform.trace \o generic.trace
                        \o << Op("script_click", "add_to_cart", "", 0) >>,
                      pg, d, url))
                \cup
              { Outcome([success |-> FALSE,
                         error |-> "Could not find add to cart button"],
                        head \o platform.trace \o generic.trace
                          \o << Op("execute_javascript", "add_to_cart", "", 0),
                                take_screenshot >>,
                        url) }
      : works \in BOOLEAN }

\* CartNavigator.navigate_to_checkout, lines 46-53
magento_selectors ==
    << "#top-cart-btn-checkout", ".action.primary.checkout",
       "button.checkout",
       ".checkout-methods-items .action.primary.checkout",
       ".checkout-methods button.btn-proceed-checkout",
       "#maincontent .action.primary.checkout" >>

\* CartNavigator.navigate_to_checkout, lines 133-154
checkout_selectors ==
    << ".checkout-button", "#checkout", ".checkout",
       "button:has-text(\"Checkout\")", "a:has-text(\"Checkout\")",
       "input[value*=\"Checkout\"]", "button:has-text(\"Proceed to\")",
       "a:has-text(\"Proceed to\")", "#proceed_to_checkout",
       ".proceed-to-checkout", ".cart-checkout", ".btn-checkout",
       ".button-checkout", "#button-confirm", ".button-confirm",
       "button.btn-primary:has-text(\"Continue\")",
       "button.action.primary.checkout", ".action.primary.checkout",
       ".btn-proceed-checkout", "#top-cart-btn-checkout" >>

\* Lines 60-68, 76-84, 119-127 and 161-168: after a click on a checkout
\* control. _handle_guest_checkout and _fill_minimum_required_fields
\* return nothing and catch what they raise.
AfterCheckoutClick(trace, url) ==
    { Outcome(StageOK,
              trace \o << wait_for_navigation,
                          Op("_handle_guest_checkout", "", "", 0),
                          Op("_fill_minimum_required_fields", "", "", 0) >>,
              u) : u \in { url, CheckoutUrl } }

\* CartNavigator.navigate_to_checkout: the outcomes of a call.
navigate_to_checkout(pg, d, info, url) ==
    LET start == << Op("get_current_url", "", "", 0) >>
        head == Append(start, take_screenshot)
        known == HasKey(info, "platform") /\ info.platform # "unknown"
        magento == IF known /\ info.platform = "magento"
                   THEN ClickWalk(pg, d, magento_selectors, "magento")
                   ELSE [hit |-> FALSE, trace |-> << >>]
        platform == ClickWalk(pg, d, platform_ladder(info, "checkout_button"),
                              "platform")
        generic == ClickWalk(pg, d, checkout_selectors, "generic")
        scanned == head \o magento.trace \o platform.trace
    IN IF url = None
       THEN { Outcome([success |-> FALSE,
                       error |-> "Could not determine current URL"],
                      start, url) }
       ELSE IF url_includes(url, "checkout") \/ url_includes(url, "onepage")
       THEN { Outcome(StageOK, start, url) }
       ELSE IF magento.hit
       THEN AfterCheckoutClick(head \o magento.trace, url)
       ELSE IF platform.hit
       THEN AfterCheckoutClick(scanned, url)
       ELSE (IF pg = "none" THEN {}
             ELSE AfterCheckoutClick(
                    Append(scanned, Op("script_click", "checkout", "", 0)),
                    url))
              \cup
            (LET probed == Append(scanned,
                             Op("execute_javascript", "checkout", "", 0))
                             \o generic.trace
             IN IF generic.hit
                THEN AfterCheckoutClick(probed, url)
                ELSE { Outcome([success |-> FALSE,
                                error |-> "Could not find checkout button"],
                               Append(probed, take_screenshot), url) })

\* CouponApplicator.apply_coupon, lines 69-80
coupon_toggle_selectors ==
    << "a:has-text(\"coupon\")", "span:has-text(\"coupon\")",
       "div:has-text(\"coupon\")", ".showcoupon",
       "#block-discount-heading",
       ".payment-option-title:has-text(\"Apply Discount Code\")",
       ".coupon-trigger", ".coupon-code-trigger", ".discount-trigger",
       ".promo-trigger" >>

\* CouponApplicator.apply_coupon, lines 91-114
coupon_field_selectors ==
    << "input[name=\"coupon_code\"]", "input[id=\"coupon_code\"]",
       "input[name*=\"coupon\"]", "input[id*=\"coupon\"]",
       "input[placeholder*=\"coupon\"]", "input[placeholder*=\"Coupon\"]",
       "input[placeholder*=\"promo\"]", "input[placeholder*=\"Promo\"]",
       "input[placeholder*=\"discount\"]",
       "input[placeholder*=\"Discount\"]", "input[name=\"discount_code\"]",
       "input[id=\"discount_code\"]", "input[name*=\"discount\"]",
       "input[id*=\"discount\"]", "input[name=\"promo_code\"]",
       "input[id=\"promo_code\"]", "input[name*=\"promo\"]",
       "input[id*=\"promo\"]", "#checkout-discount-input",
       ".coupon-code-field input", ".discount-code-field input",
       ".promo-code-field input" >>

\* CouponApplicator.apply_coupon, lines 183-205
apply_button_selectors ==
    << "button[name=\"apply_coupon\"]", "button[id=\"apply_coupon\"]",
       "button:has-text(\"Apply\")", "button:has-text(\"apply\")",
       "button:has-text(\"Apply Coupon\")",
       "button:has-text(\"Apply coupon\")",
       "button:has-text(\"Apply Discount\")",
       "button:has-text(\"Apply discount\")",
       "button:has-text(\"Apply Promo\")",
       "button:has-text(\"Apply promo\")", "input[value=\"Apply\"]",
       "input[value=\"Apply Coupon\"]", "input[value=\"Apply Discount\"]",
       "input[value=\"Apply Promo\"]", ".apply-coupon", ".apply-discount",
       ".apply-promo", "#discount-coupon-form .action.primary",
       ".discount-form .action.primary", ".coupon-form .action.primary",
       ".promo-form .action.primary" >>

\* CouponApplicator.apply_coupon, lines 241-254 (the second list named coupon_field_selectors)
enter_field_selectors ==
    << "input[name=\"coupon_code\"]", "input[id=\"coupon_code\"]",
       "input[name*=\"coupon\"]", "input[id*=\"coupon\"]",
       "input[name=\"discount_code\"]", "input[id=\"discount_code\"]",
       "input[name*=\"discount\"]", "input[id*=\"discount\"]",
       "input[name=\"promo_code\"]", "input[id=\"promo_code\"]",
       "input[name*=\"promo\"]", "input[id*=\"promo\"]" >>

\* Lines 33-44: the handlers of magento and skullcandy expand the coupon
\* section before the field is looked for; they catch what they raise.
coupon_section_hook(info) ==
    IF HasKey(info, "platform") /\ info.platform \in { "magento", "skullcandy" }
    THEN << Op("find_and_expand_coupon_section", info.platform, "", 0) >>
    ELSE << >>

\* "for selector in ladder: if is_visible(selector): <op>(selector); break":
\* the result of the operation is not looked at.
ActWalk(pg, d, ladder, tag, op) ==
    LET k == FirstVisibleIndex(pg, d, ladder, 1)
    IN IF k = 0
       THEN [hit |-> FALSE, trace |-> Probes(pg, d, ladder, tag)]
       ELSE [hit |-> TRUE,
             trace |-> Append(Probes(pg, d, ladder, tag),
                              Op(op, tag, ladder[k], 0))]

\* Lines 55-145 of apply_coupon: the coupon field is looked for and
\* filled. browser_engine.evaluate does not exist: the last resort raises
\* AttributeError, caught at line 144.
resolve_coupon_field(pg, d, info) ==
    LET platform == ActWalk(pg, d, platform_ladder(info, "coupon_field"),
                            "platform", "fill")
        toggle == ActWalk(pg, d, coupon_toggle_selectors, "toggle", "click")
        toggled == toggle.trace
                     \o (IF toggle.hit
                         THEN << Op("wait_for_timeout", "", "", 1000) >>
                         ELSE << >>)
        generic == ActWalk(pg, d, coupon_field_selectors, "generic", "fill")
    IN IF platform.hit
       THEN [found |-> TRUE, trace |-> platform.trace]
       ELSE IF generic.hit
       THEN [found |-> TRUE,
             trace |-> platform.trace \o toggled \o generic.trace]
       ELSE [found |-> FALSE,
             trace |-> Append(platform.trace \o toggled \o generic.trace,
                              Op("evaluate", "coupon_field", "", 0))]

\* A resolution that looks for the apply button with the generic selectors
\* first.
resolve_apply_button_GenericFirst(pg, d, info) ==
    LET platform == ActWalk(pg, d, platform_ladder(info, "coupon_button"),
                            "platform_button", "click")
        generic == ActWalk(pg, d, apply_button_selectors, "generic_button",
                           "click")
        enter == ActWalk(pg, d, enter_field_selectors, "enter", "press_key")
    IN IF generic.hit
       THEN generic.trace
       ELSE IF platform.hit
       THEN generic.trace \o platform.trace
       ELSE Append(generic.trace \o platform.trace,
                   Op("evaluate", "coupon_button", "", 0))
              \o enter.trace

\* Lines 150-256 of apply_coupon: the apply button is looked for and
\* clicked, Enter is pressed in the coupon field when none was.
resolve_apply_button(pg, d, info) ==
    LET platform == ActWalk(pg, d, platform_ladder(info, "coupon_button"),
                            "platform_button", "click")
        generic == ActWalk(pg, d, apply_button_selectors, "generic_button",
                           "click")
        enter == ActWalk(pg, d, enter_field_selectors, "enter", "press_key")
    IN IF platform.hit
       THEN platform.trace
       ELSE IF generic.hit
       THEN platform.trace \o generic.trace
       ELSE Append(platform.trace \o generic.trace,
                   Op("evaluate", "coupon_button", "", 0))
              \o enter.trace

\* CouponApplicator.apply_coupon: the result and the steps of a call.
apply_coupon_steps(pg, d, html, info, url) ==
    LET head == << take_screenshot >> \o coupon_section_hook(info)
        field == resolve_coupon_field(pg, d, info)
    IN IF ~field.found
       THEN { Outcome(apply_coupon("no_field", pg, d, html, info),
                      head \o field.trace, url) }
       ELSE { Outcome(apply_coupon("classified", pg, d, html, info),
                      head \o field.trace \o resolve_apply_button(pg, d, info)
                        \o << wait_for_navigation, take_screenshot,
                              Op("_check_validation_result", "", "", 0) >>,
                      url) }

(***************************************************************************)
(* The stages after the product selection, each called on a page.          *)
(***************************************************************************)
\* Selectors of the pages: the first selector of the add-to-cart ladders
\* of woocommerce and magento, a generic add-to-cart selector, a quantity
\* field, a view-cart link, the checkout buttons of magento and
\* woocommerce, and coupon fields, a coupon toggle and apply buttons.
CartSelectors ==
    { ".single_add_to_cart_button", "#product-addtocart-button",
      ".add-to-cart", "input[name=\"qty\"]", ".view-cart",
      "#top-cart-btn-checkout", ".checkout-button", "#coupon_code",
      "input[name=\"coupon_code\"]", ".showcoupon",
      "button[name=\"apply_coupon\"]", ".apply-coupon" }

\* A call of add_to_cart on the current page.
AddToCart ==
    /\ stage_call = ""
    /\ \E o \in add_to_cart(page, dom, platform_info, stage_url) :
         /\ stage_result' = o.result
         /\ stage_trace' = o.trace
         /\ stage_url' = o.url
    /\ stage_call' = "add_to_cart"
    /\ UNCHANGED << page, dom, validation_result, identVars, navVars,
                    runVars,
                    sessionVars >>

\* A call of navigate_to_checkout on the current page.
NavigateToCheckout ==
    /\ stage_call = ""
    /\ \E o \in navigate_to_checkout(page, dom, platform_info, stage_url) :
         /\ stage_result' = o.result
         /\ stage_trace' = o.trace
         /\ stage_url' = o.url
    /\ stage_call' = "navigate_to_checkout"
    /\ UNCHANGED << page, dom, validation_result, identVars, navVars,
                    runVars,
                    sessionVars >>

\* A call of apply_coupon on the current page.
ApplyCoupon ==
    /\ stage_call = ""
    /\ \E o \in apply_coupon_steps(page, dom, html_content, platform_info,
                                   stage_url) :
         /\ stage_result' = o.result
         /\ stage_trace' = o.trace
         /\ stage_url' = o.url
    /\ stage_call' = "apply_coupon"
    /\ UNCHANGED << page, dom, validation_result, identVars, navVars,
                    runVars,
                    sessionVars >>

InitStages == StageInputs(CartSelectors, StageUrls \cup { BlankUrl })

NextStages == \/ AddToCart \/ NavigateToCheckout \/ ApplyCoupon

SpecStages == InitStages /\ [][NextStages]_vars

(***************************************************************************)
(* The browser session: its primitives called one after the other.        *)
(***************************************************************************)
MaxCalls == 3

\* BrowserEngine.click and BrowserEngine.fill have the same structure: the
\* standard attempt waits for the element to be visible; with retry the
\* forced attempt needs an element that matches; the script of the last
\* resort returns false when nothing matches, its value is not looked at
\* and the method returns True. acted tells whether an element was clicked
\* (filled).
act_with_retry(pg, d, selector, retry) ==
    IF pg = "none" THEN [value |-> FALSE, acted |-> FALSE]
    ELSE IF selector \in DOMAIN d /\ d[selector].visible
    THEN [value |-> TRUE, acted |-> TRUE]
    ELSE IF ~retry THEN [value |-> FALSE, acted |-> FALSE]
    ELSE IF selector \in DOMAIN d
    THEN [value |-> TRUE, acted |-> TRUE]
    ELSE [value |-> TRUE, acted |-> FALSE]

\* BrowserEngine.press_key
press_key(pg, d, selector) ==
    [value |-> is_visible(pg, d, selector),
     acted |-> is_visible(pg, d, selector)]

\* The primitives of the session that return a truth value or None.
Primitives ==
    { "navigate", "click", "fill", "press_key", "is_visible", "get_text",
      "execute_javascript", "take_screenshot" }

\* What a primitive returns (value FALSE stands for False and for None)
\* and whether it acted on an element.
primitive(name, pg, d, selector, retry) ==
    CASE name = "navigate" ->
           { [value |-> v, acted |-> FALSE] : v \in NavigateResults(pg) }
      [] name \in { "click", "fill" } ->
           { act_with_retry(pg, d, selector, retry) }
      [] name = "press_key" -> { press_key(pg, d, selector) }
      [] name = "is_visible" ->
           { [value |-> is_visible(pg, d, selector), acted |-> FALSE] }
      [] name = "get_text" ->
           { [value |-> get_text(pg, d, selector) # None, acted |-> FALSE] }
      [] OTHER ->
           \* execute_javascript and take_screenshot: None / False without
           \* a page, else the script value or False when the call raised
           { [value |-> v, acted |-> FALSE] :
               v \in IF pg = "none" THEN { FALSE } ELSE BOOLEAN }

\* The selector the primitives are called with, present or not on the
\* page, visible or not.
SessionSelectors == { ".apply-coupon" }

\* The number of calls made on the session.
CallCount(log) ==
    Cardinality({ i \in 1..Len(log) : log[i].op = "return" })

SessionStart ==
    /\ CallCount(stage_trace) < MaxCalls
    /\ \E o \in start_session :
         /\ page' = o.session.page
         /\ context' = o.session.context
         /\ browser' = o.session.browser
         /\ playwright' = o.session.playwright
         /\ stage_trace' =
              Append(stage_trace,
                     Op("return", "start", "", IF o.result THEN 1 ELSE 0))
    /\ stage_call' = "start"
    /\ UNCHANGED << dom, validation_result, stage_url, stage_result,
                    identVars, navVars, runVars >>

SessionClose ==
    /\ CallCount(stage_trace) < MaxCalls
    /\ \E o \in close(Session(page, context, browser, playwright),
                      Len(Resources), << >>) :
         /\ page' = o.session.page
         /\ context' = o.session.context
         /\ browser' = o.session.browser
         /\ playwright' = o.session.playwright
         /\ stage_trace' =
              Append(stage_trace \o o.trace, Op("return", "close", "", 0))
    /\ stage_call' = "close"
    /\ UNCHANGED << dom, validation_result, stage_url, stage_result,
                    identVars, navVars, runVars >>

SessionCall ==
    /\ CallCount(stage_trace) < MaxCalls
    /\ \E name \in Primitives, selector \in SessionSelectors,
          retry \in BOOLEAN :
         /\ name \notin { "click", "fill" } => retry
         /\ \E o \in primitive(name, page, dom, selector, retry) :
              /\ stage_trace' =
                   stage_trace
                     \o (IF o.acted
                         THEN << Op("element." \o name, "", selector, 0) >>
                         ELSE << >>)
                     \o << Op("return", name, selector,
                              IF o.value THEN 1 ELSE 0) >>
         /\ stage_call' = name
    /\ UNCHANGED << page, dom, validation_result, stage_url, stage_result,
                    identVars, navVars, runVars, sessionVars >>

\* A session that was not started, on a site whose page has the element
\* or not.
InitSession ==
    /\ page = "none"
    /\ SessionOfPage
    /\ dom \in StageDoms(SessionSelectors)
    /\ html_content = {}
    /\ current_url = {}
    /\ validation_result = NoResult
    /\ IdentIdle
    /\ NavIdle
    /\ RunIdle
    /\ StageIdle

NextSession == \/ SessionStart \/ SessionClose \/ SessionCall

SpecSession == InitSession /\ [][NextSession]_vars

(***************************************************************************)
(* The coupon application on a checkout page.                              *)
(***************************************************************************)
\* A coupon field reached by its name (first selector of the generic
\* ladder and of the Enter ladder, last of the woocommerce ladder), one
\* reached only by its placeholder, a coupon toggle, and the apply buttons
\* of the woocommerce ladder and of the generic ladder.
CouponSelectors ==
    { "input[name=\"coupon_code\"]", "input[placeholder*=\"coupon\"]",
      ".showcoupon", "button[name=\"apply_coupon\"]", ".apply-coupon" }

\* Lines 186-194 of validate_coupon: on a magento page the coupon section
\* is expanded, then apply_coupon is called.
coupon_step(pg, d, html, info, url) ==
    { Outcome(o.result,
              (IF info.platform = "magento"
               THEN << Op("find_and_expand_coupon_section", "magento", "", 0) >>
               ELSE << >>) \o o.trace,
              o.url) : o \in apply_coupon_steps(pg, d, html, info, url) }

CouponStep ==
    /\ stage_call = ""
    /\ \E o \in coupon_step(page, dom, html_content, platform_info,
                            stage_url) :
         /\ stage_result' = o.result
         /\ stage_trace' = o.trace
         /\ stage_url' = o.url
    /\ stage_call' = "validate_coupon"
    /\ UNCHANGED << page, dom, validation_result, identVars, navVars,
                    runVars, sessionVars >>

InitCoupon ==
    /\ page = "open"
    /\ StageInputs(CouponSelectors, { CheckoutUrl })

NextCoupon == \/ ApplyCoupon \/ CouponStep

SpecCoupon == InitCoupon /\ [][NextCoupon]_vars

(***************************************************************************)
(* Properties of the Result Classifier and of the results of a run.       *)
(***************************************************************************)
HasVerdict == DOMAIN validation_result # {}

ErrorImpliesInvalid(r) ==
    HasKey(r, "error_message") /\ Truthy(r.error_message)
        => r.is_valid = FALSE

\* C1: in every verdict of the classifier and in every result returned by
\* validate_coupon a non-empty error_message implies is_valid = FALSE, and
\* a classification that finds an error message and a discount amount
\* yields is_valid = FALSE with the amount reported.
C1_ErrorMessageImpliesInvalid ==
    /\ [](HasVerdict => ErrorImpliesInvalid(validation_result))
    /\ [](run_pc = "returned" => ErrorImpliesInvalid(run_result))
    /\ [][validation_result' # validation_result =>
             LET amount == _extract_discount_amount(page, dom, html_content,
                                                    platform_info)
             IN Truthy(validation_result'.error_message) /\ amount # None
                  => /\ validation_result'.is_valid = FALSE
                     /\ validation_result'.discount_amount = amount]_vars

\* An error message and a discount amount were found by the classifier
\* and a run has returned a result with an error message.
C1_Witness ==
    /\ HasVerdict
    /\ Truthy(validation_result.error_message)
    /\ Truthy(validation_result.discount_amount)
    /\ run_pc = "returned"
    /\ HasKey(run_result, "error_message")

\* C2: a verdict with neither a success nor an error message but with a
\* discount amount has is_valid = TRUE.
C2_DiscountAloneIsValid ==
    HasVerdict
      /\ validation_result.success_message = None
      /\ validation_result.error_message = None
      /\ validation_result.discount_amount # None
        => validation_result.is_valid = TRUE

\* A verdict whose only evidence is a discount amount.
C2_Witness ==
    /\ HasVerdict
    /\ validation_result.success_message = None
    /\ validation_result.error_message = None
    /\ validation_result.discount_amount # None

\* C3: is_valid is TRUE exactly when error_message is absent and a success
\* message or a discount amount is present; with nothing found the verdict
\* is invalid with the three evidence fields empty.
C3_VerdictRule ==
    HasVerdict =>
        validation_result.is_valid =
            (/\ validation_result.error_message = None
             /\ \/ validation_result.success_message # None
                \/ validation_result.discount_amount # None)

\* A verdict with a success message, an error message and a discount
\* amount together.
C3_Witness ==
    /\ HasVerdict
    /\ validation_result.success_message # None
    /\ validation_result.error_message # None
    /\ validation_result.discount_amount # None

(***************************************************************************)
(* Navigation Strategist.                                                  *)
(***************************************************************************)
\* navigate has returned on a started session.
NavReturned == nav_pc = "returned" /\ nav_session = "open"

\* The bar of a successful tactic: a response under 400 or none, sufficient
\* content, no bot signal.
ContentSufficient(content) ==
    content.returned /\ content.bodyExists /\ content.contentLength >= 100

NoBotSignal(bot) == bot.returned /\ ~AnyBot(bot)

MeetsBar(env) ==
    /\ env.response # Raises
    /\ env.response = NoResponse \/ env.response < 400
    /\ ContentSufficient(env.content)
    /\ NoBotSignal(env.bot)

\* C4: navigate returns True only when, on the last attempt, the content
\* check passed and no bot signal fired (a script without a result counts
\* as a failed check).
C4_TrueOnlyAfterChecks ==
    NavReturned /\ nav_result
        => /\ Len(attempt_log) > 0
           /\ ContentSufficient(attempt_log[Len(attempt_log)].env.content)
           /\ NoBotSignal(attempt_log[Len(attempt_log)].env.bot)

\* C5: the first tactic whose page meets the bar makes navigate return True
\* at that tactic, so that it is the last attempt made.
C5_FirstGoodTacticReturnsTrue ==
    \A k \in 1..Len(attempt_log) :
        nav_session = "open" /\ MeetsBar(attempt_log[k].env)
            => /\ nav_pc = "returned"
               /\ nav_result
               /\ Len(attempt_log) = k

\* The methods and wait policies of the first n tactics, in order.
TacticOrder(wait) ==
    << << "normal", wait >>, << "normal", "domcontentloaded" >>,
       << "normal", "load" >>, << "reload", None >>, << "new_tab", None >> >>

AttemptedInOrder ==
    /\ Len(attempt_log) <= Len(TacticOrder(wait_until))
    /\ \A k \in 1..Len(attempt_log) :
         << attempt_log[k].strategy.method,
            attempt_log[k].strategy.wait_until >> = TacticOrder(wait_until)[k]

\* C6: on a started session navigate returns False only after the five
\* tactics were attempted in the order normal/caller policy,
\* normal/domcontentloaded, normal/load, reload, new tab; the step that
\* follows a tactic i < 5 which did not succeed is the attempt of tactic
\* i + 1, never a return.
C6_FalseOnlyAfterFiveTactics ==
    /\ [](nav_session = "open" => AttemptedInOrder)
    /\ [](NavReturned /\ ~nav_result
            => /\ Len(attempt_log) = 5
               /\ navigation_metrics.attempts = 5)
    /\ [][nav_pc = "attempting" /\ Len(attempt_log) \in 1..4
            => /\ nav_pc' = "returned" => nav_result'
               /\ Len(attempt_log') = Len(attempt_log) + 1
               /\ attempt_log'[Len(attempt_log')].strategy
                    = strategies(wait_until)[Len(attempt_log) + 1]]_vars

\* navigate returned False after five failed tactics, the first of which
\* used the load policy of the caller.
C6_Witness ==
    /\ NavReturned
    /\ ~nav_result
    /\ Len(attempt_log) = 5
    /\ wait_until = "load"
    /\ attempt_log[4].strategy.method = "reload"

\* The page of an attempt loads but its content is insufficient.
FailsContentCheck(env) ==
    /\ env.response # Raises
    /\ env.response = NoResponse \/ env.response < 400
    /\ env.content.returned
    /\ ~env.content.bodyExists \/ env.content.contentLength < 100

PairwiseDistinct(s) ==
    \A i, j \in 1..Len(s) : i # j => s[i] # s[j]

\* C7: when the page has insufficient content on all five tactics the
\* outcome is success = FALSE with five attempt records (five content
\* checks, five failure reasons), the reasons being pairwise distinct.
C7_FiveRecordsWhenContentInsufficient ==
    NavReturned /\ Len(attempt_log) = 5
      /\ (\A k \in 1..5 : FailsContentCheck(attempt_log[k].env))
        => /\ ~nav_result
           /\ ~navigation_metrics.success
           /\ navigation_metrics.attempts = 5
           /\ Len(navigation_metrics.content_checks) = 5
           /\ Len(navigation_metrics.errors) = 5
           /\ PairwiseDistinct(navigation_metrics.errors)

(***************************************************************************)
(* Platform Recognizer.                                                    *)
(***************************************************************************)
\* identify_platform has returned a descriptor with scores.
HasScores == HasKey(platform_info, "confidence_scores")

\* Number of the signatures of platform p that match the HTML or the URL.
MatchCount(p) ==
    Cardinality({ i \in 1..Len(platform_patterns.map[p]) :
                    \/ re_search(platform_patterns.map[p][i], html_content)
                    \/ re_search(platform_patterns.map[p][i], current_url) })

\* C8: the score of a platform is the number of its signatures matching the
\* HTML or the URL; the tag is a platform with the highest score when that
\* score is not zero, the first declared among those sharing it, and
\* "unknown" when every platform scores zero.
C8_HighestScoreFirstDeclared ==
    HasScores =>
        LET scores == platform_info.confidence_scores
            order == platform_patterns.order
        IN /\ DOMAIN scores = Range(order)
           /\ \A p \in Range(order) : scores[p] = MatchCount(p)
           /\ IF \A p \in Range(order) : scores[p] = 0
              THEN platform_info.platform = "unknown"
              ELSE \E k \in 1..Len(order) :
                     /\ platform_info.platform = order[k]
                     /\ scores[order[k]] > 0
                     /\ \A j \in 1..Len(order) :
                          scores[order[j]] <= scores[order[k]]
                     /\ \A j \in 1..(k - 1) :
                          scores[order[j]] < scores[order[k]]

\* Two platforms share the highest score and the first declared is the tag.
C8_Witness ==
    /\ HasScores
    /\ \E k \in 1..Len(platform_patterns.order) :
         \E j \in (k + 1)..Len(platform_patterns.order) :
            /\ platform_info.platform = platform_patterns.order[k]
            /\ platform_info.confidence_scores[platform_patterns.order[k]] > 0
            /\ platform_info.confidence_scores[platform_patterns.order[j]]
                 = platform_info.confidence_scores[platform_patterns.order[k]]

\* C9: for a page whose HTML contains Mage.Cookies and whose URL contains
\* checkout/cart the tag is magento and the magento score is positive and
\* strictly greater than the score of every other platform.
C9_MagentoStrictlyHighest ==
    HasScores /\ "Mage.Cookies" \in html_content
              /\ "checkout/cart" \in current_url
        => /\ platform_info.platform = "magento"
           /\ platform_info.confidence_scores["magento"] > 0
           /\ \A p \in DOMAIN platform_info.confidence_scores :
                p # "magento"
                  => platform_info.confidence_scores[p]
                       < platform_info.confidence_scores["magento"]

LadderRoles ==
    { "product_grid", "add_to_cart", "cart_link", "checkout_button",
      "coupon_field", "coupon_button", "coupon_success", "coupon_error",
      "discount_amount" }

\* identify_platform returned from its except clause.
IdentificationFailed ==
    DOMAIN platform_info # {} /\ HasKey(platform_info, "error")

\* C11: when identify_platform raises internally (here: the session has no
\* page) it returns a descriptor with platform "unknown" and an error
\* message, and that descriptor gives no platform-specific ladder to any
\* stage.
C11_ExceptionYieldsUnknown ==
    /\ DOMAIN platform_info # {} /\ page = "none" => IdentificationFailed
    /\ IdentificationFailed
         => /\ platform_info.platform = "unknown"
            /\ Truthy(platform_info.error)
            /\ \A role \in LadderRoles :
                 platform_ladder(platform_info, role) = << >>

\* identify_platform was called on a session without a page.
C11_Witness ==
    /\ page = "none"
    /\ IdentificationFailed
    /\ platform_info.platform = "unknown"

(***************************************************************************)
(* Selector ladders.                                                       *)
(***************************************************************************)
\* The first selector of a ladder whose element is visible, None when no
\* selector of the ladder has a visible element.
RECURSIVE FirstVisible(_, _, _, _)
FirstVisible(pg, d, ladder, i) ==
    IF i > Len(ladder) THEN None
    ELSE IF is_visible(pg, d, ladder[i]) THEN ladder[i]
    ELSE FirstVisible(pg, d, ladder, i + 1)

\* The classifier ran on the page the session shows.
VerdictOfPage == HasVerdict /\ page = "open"

\* C12: in the ladders of the classifier (platform and generic success and
\* error messages) the element read is that of the first selector in ladder
\* order whose element is visible, and a ladder finds nothing only when
\* none of its selectors has a visible element.
C12_FirstVisibleSelectorWins ==
    VerdictOfPage =>
        LET ps == FirstVisible(page, dom,
                      platform_ladder(platform_info, "coupon_success"), 1)
            pe == FirstVisible(page, dom,
                      platform_ladder(platform_info, "coupon_error"), 1)
            gs == FirstVisible(page, dom, success_selectors, 1)
            ge == FirstVisible(page, dom, error_selectors, 1)
        IN /\ ps # None
                => validation_result.success_message = get_text(page, dom, ps)
           /\ pe # None
                => validation_result.error_message = get_text(page, dom, pe)
           /\ ps = None /\ pe = None /\ gs # None
                => validation_result.success_message = get_text(page, dom, gs)
           /\ ps = None /\ pe = None /\ ge # None
                => validation_result.error_message = get_text(page, dom, ge)
           /\ ps = None /\ gs = None
                => validation_result.success_message = None
           /\ pe = None /\ ge = None
                => validation_result.error_message = None

\* The selector suggested by the AI analyzer for a role.
AISelector(role) == "#ai-" \o role

\* The descriptor without what the AI analysis added to it.
WithoutAIScores(info) ==
    [k \in DOMAIN info \ { "ai_confidence_scores" } |-> info[k]]

\* C13: for the discount role the selector suggested by the AI analyzer is
\* probed ahead of every other selector when the AI confidence is above
\* 0.8, and with a confidence of 0.8 or less the verdict is the one
\* obtained without the AI analysis.
C13_AISelectorsFirstAboveThreshold ==
    VerdictOfPage /\ HasKey(platform_info, "ai_confidence_scores")
                  /\ HasKey(platform_info.ai_confidence_scores,
                            "discount_amount")
        => IF platform_info.ai_confidence_scores.discount_amount
                 > ai_confidence_threshold
           THEN (/\ is_visible(page, dom, AISelector("discount_amount"))
                 /\ numeric_match(get_text(page, dom,
                                    AISelector("discount_amount"))) # None)
                   => validation_result.discount_amount
                        = numeric_match(get_text(page, dom,
                                          AISelector("discount_amount")))
           ELSE validation_result
                  = _check_validation_result(page, dom, html_content,
                                             WithoutAIScores(platform_info))

(***************************************************************************)
(* validate_coupon.                                                        *)
(***************************************************************************)
\* validate_coupon has returned or has let an exception escape.
RunEnded == run_pc \in { "returned", "raised" }

\* Number of occurrences of a call in a sequence of events.
Count(events, e) == Cardinality({ i \in 1..Len(events) : events[i] = e })

\* The calls of browser_engine.navigate made by a run.
NavigateEvents == { "navigate:" \o w : w \in Range(RunStrategies) }

\* The calls made by lines 120-237, after a successful navigation.
PipelineEvents ==
    { "identify_platform", "find_and_select_product", "add_to_cart",
      "navigate_to_checkout", "apply_coupon" }

\* No run gets past the navigation: navigate never returns True (see C5),
\* so that lines 120-237 of validate_coupon are not executed.
RunNeverPassesNavigation ==
    /\ ~navigation_success
    /\ \A i \in 1..Len(run_events) : run_events[i] \notin PipelineEvents

C18_SavedOnceAfterRelease ==
    RunEnded
        => /\ Count(run_events, "save_result") = 1
           /\ Count(run_events, "generate_report") = 1
           /\ \A i, j \in 1..Len(run_events) :
                run_events[i] = "close" /\ run_events[j] = "save_result"
                    => i < j

\* C19: with an invalid coupon code or URL validate_coupon neither starts
\* the browser nor navigates, and returns a failure result.
C19_InvalidInputFailsFast ==
    run_pc # "idle" /\ ~validate_inputs(arg_coupon_code, arg_website_url)
        => /\ \A i \in 1..Len(run_events) :
                run_events[i] \notin { "start" } \cup NavigateEvents
           /\ RunEnded
                => /\ run_pc = "returned"
                   /\ run_result.is_valid = FALSE

\* The keys every result carries.
WellFormed(result) ==
    { "coupon_code", "website_url", "timestamp", "is_valid", "status" }
        \subseteq DOMAIN result

\* C20: no exception escapes validate_coupon; a run in which a step raised
\* returns a well-formed result with is_valid = FALSE and the exception
\* text as error_message, the session being released.
C20_ExceptionYieldsResult ==
    /\ run_pc # "raised"
    /\ run_pc = "returned"
         => /\ WellFormed(run_result)
            /\ run_page = "none"
            /\ \A t \in ExceptionTexts :
                 ("raise:" \o t) \in Range(run_events)
                    => /\ run_result.is_valid = FALSE
                       /\ HasKey(run_result, "error_message")
                       /\ run_result.error_message = t

(***************************************************************************)
(* The initial navigation of validate_coupon.                              *)
(***************************************************************************)
IsNavigateEvent(e) == e \in NavigateEvents

\* The calls of browser_engine.navigate of a run, in the order made.
NavigateCalls(events) == SelectSeq(events, IsNavigateEvent)

IsPrefix(s, t) ==
    /\ Len(s) <= Len(t)
    /\ \A i \in 1..Len(s) : s[i] = t[i]

\* The wait policies of the initial navigation, in the order of the claim.
C21_Policies ==
    << "navigate:networkidle", "navigate:domcontentloaded", "navigate:load" >>

C21_Message ==
    "Failed to navigate to the website after multiple attempts: "
        \o "Navigation failed with strategy: networkidle; "
        \o "Navigation failed with strategy: domcontentloaded; "
        \o "Navigation failed with strategy: load"

\* C21: validate_coupon calls navigate with networkidle, domcontentloaded,
\* load in that order and at most three times, makes no call after a call
\* returned True, and when all three calls returned False (a session that
\* failed to start included) it returns is_valid = FALSE with status
\* 'Navigation failed' and the aggregated message, without identifying the
\* platform or running a stage.
C21_NavigationLadder ==
    /\ [](IsPrefix(NavigateCalls(run_events), C21_Policies))
    /\ [][navigation_success
            => NavigateCalls(run_events') = NavigateCalls(run_events)]_vars
    /\ [](run_pc = "returned" /\ "start" \in Range(run_events)
             /\ ~navigation_success
            => /\ NavigateCalls(run_events) = C21_Policies
               /\ run_result.is_valid = FALSE
               /\ run_result.status = "Navigation failed"
               /\ run_result.error_message = C21_Message
               /\ \A i \in 1..Len(run_events) :
                    run_events[i] \notin PipelineEvents)

\* A run whose session failed to start returned the navigation failure
\* after three calls of navigate.
C21_Witness ==
    /\ run_pc = "returned"
    /\ NavigateCalls(run_events) = C21_Policies
    /\ run_result.status = "Navigation failed"
    /\ run_result.error_message = C21_Message
    /\ ~navigation_success

(***************************************************************************)
(* The platform descriptor after its creation.                             *)
(***************************************************************************)
\* C22: once identify_platform has produced the descriptor, a step that is
\* neither a page load nor a new call of identify_platform leaves every
\* field and every ladder of the descriptor as it was.
C22_DescriptorImmutable ==
    [][(/\ platform_info # NoInfo
        /\ platform_info' # NoInfo
        /\ prev_platform_info' = prev_platform_info)
          => platform_info' = platform_info]_vars

(***************************************************************************)
(* The result of validate_coupon as read by the test scripts.              *)
(***************************************************************************)
\* C23: every result returned by validate_coupon has the keys the test
\* scripts read: 'success', 'platform', 'message', 'discount_amount',
\* 'execution_steps' and 'error'.
C23_ResultCarriesTestFields ==
    run_pc = "returned"
        => (run_tests_keys \cup test_validation_keys) \subseteq DOMAIN run_result

(***************************************************************************)
(* The stages.                                                             *)
(***************************************************************************)
\* Operations that act on the page: clicks, scripted clicks, input and
\* navigation.
ActingOps ==
    { "click", "element.click", "script_click", "fill", "press_key", "goto" }

Acts(trace) == { i \in 1..Len(trace) : trace[i].op \in ActingOps }

\* The page shows a product-page indicator.
ShowsIndicator ==
    \E i \in 1..Len(product_page_indicators) :
        is_visible(page, dom, product_page_indicators[i])

\* The URL script of the stage found a product-like token in the URL.
SawProductUrl(trace) ==
    \E i \in 1..Len(trace) :
        trace[i] = Op("execute_javascript", "url_check", "", 1)

Tried(trace, op, ladder) ==
    \E i \in 1..Len(trace) : trace[i].op = op /\ trace[i].ladder = ladder

\* C27: on a session with a page, find_and_select_product reports failure
\* only after the grid ladders matched nothing, the link scan clicked
\* nothing and both last-resort scripts clicked nothing.
C27_FailureOnlyAfterEveryRung ==
    (/\ stage_call = "find_and_select_product"
     /\ page = "open"
     /\ ~stage_result.success)
        => /\ Tried(stage_trace, "query_selector_all", "generic")
           /\ Tried(stage_trace, "execute_javascript", "link_count")
           /\ Tried(stage_trace, "execute_javascript", "image_link")
           /\ Tried(stage_trace, "execute_javascript", "product_class")
           /\ Acts(stage_trace) = {}

\* The candidates counted by a call: the elements matched by the grid
\* selector, or the links counted by the script.
CandidateCount(trace, i) ==
    IF trace[i].ladder = "grid"
    THEN LET q == CHOOSE j \in 1..Len(trace) :
                    /\ trace[j].op = "query_selector_all"
                    /\ trace[j].selector = trace[i].selector
                    /\ trace[j].arg > 0
         IN trace[q].arg
    ELSE LET c == CHOOSE j \in 1..Len(trace) :
                    /\ trace[j].op = "execute_javascript"
                    /\ trace[j].ladder = "link_count"
         IN trace[c].arg

\* C28: with n >= 1 candidates the index chosen by find_and_select_product
\* lies in 0 .. min(n, 10) - 1.
C28_IndexWithinFirstTen ==
    \A i \in 1..Len(stage_trace) :
        stage_trace[i].op = "random.randint"
            => LET n == CandidateCount(stage_trace, i)
               IN /\ n >= 1
                  /\ stage_trace[i].arg >= 0
                  /\ stage_trace[i].arg <= Min(n, 10) - 1

\* With eleven candidates the stage chose index 9, the last it may choose.
C28_Witness ==
    /\ stage_call = "find_and_select_product"
    /\ \E i \in 1..Len(stage_trace) :
         /\ stage_trace[i].op = "random.randint"
         /\ CandidateCount(stage_trace, i) = 11
         /\ stage_trace[i].arg = 9
         /\ stage_result.success

\* An add-to-cart control was clicked: a selector of the platform ladder or
\* of the generic ladder, or the control found by the script.
AddToCartClicked(trace) ==
    \E i \in 1..Len(trace) :
        \/ trace[i].op = "click" /\ trace[i].ladder \in { "platform", "generic" }
        \/ trace[i].op = "script_click" /\ trace[i].ladder = "add_to_cart"

\* An option of the product could not be set: the script or the fill
\* returned nothing.
OptionFailed(trace) ==
    \E i \in 1..Len(trace) :
        /\ trace[i].op \in { "set_option", "fill" }
        /\ trace[i].ladder \in { "size", "color", "quantity" }
        /\ trace[i].arg = 0

\* The follow-up step failed on every rung: no view-cart control, no cart
\* link found by the script, and the last of the conventional cart URLs
\* was tried in vain.
CartFollowUpFailed(trace) ==
    /\ \E i \in 1..Len(trace) :
         trace[i] = Op("navigate", "cart_url", cart_urls[Len(cart_urls)], 0)
    /\ \A i \in 1..Len(trace) :
         ~(trace[i].op \in { "click", "script_click" }
             /\ trace[i].ladder \in { "cart_navigation", "cart_link" })

\* The follow-up step raised.
CartFollowUpRaised(trace) ==
    \E i \in 1..Len(trace) :
        trace[i].op = "raise" /\ trace[i].ladder = "_navigate_to_cart_if_needed"

\* C29: add_to_cart returns success = true exactly when an add-to-cart
\* control was clicked, whatever the follow-up navigation to the cart did
\* (failed on every rung, raised) and whether or not the options of the
\* product could be set; it fails only with no control clicked.
C29_ClickedMeansSuccess ==
    stage_call = "add_to_cart"
        => /\ AddToCartClicked(stage_trace) => stage_result = StageOK
           /\ ~AddToCartClicked(stage_trace)
                => stage_result = [success |-> FALSE,
                                   error |-> "Could not find add to cart button"]

\* A control was clicked, the quantity could not be set, the follow-up
\* failed on every rung and the page is still not the cart: the stage
\* succeeded.
C29_Witness ==
    /\ stage_call = "add_to_cart"
    /\ AddToCartClicked(stage_trace)
    /\ OptionFailed(stage_trace)
    /\ CartFollowUpFailed(stage_trace)
    /\ stage_url = HomeUrl
    /\ stage_result = StageOK

\* A control was clicked and the follow-up raised: the stage succeeded.
C29_WitnessRaised ==
    /\ stage_call = "add_to_cart"
    /\ AddToCartClicked(stage_trace)
    /\ CartFollowUpRaised(stage_trace)
    /\ stage_result = StageOK

\* The four resolutions that have a platform-specific and a generic
\* ladder: the stage, the role of the descriptor, and the tags of the two
\* ladders in the trace.
C30_Resolutions ==
    { [stage |-> "add_to_cart", role |-> "add_to_cart",
       platform |-> "platform", generic |-> "generic"],
      [stage |-> "navigate_to_checkout", role |-> "checkout_button",
       platform |-> "platform", generic |-> "generic"],
      [stage |-> "apply_coupon", role |-> "coupon_field",
       platform |-> "platform", generic |-> "generic"],
      [stage |-> "apply_coupon", role |-> "coupon_button",
       platform |-> "platform_button", generic |-> "generic_button"] }

\* The positions of the trace at which a selector of a ladder is probed.
ProbedAt(trace, tag) ==
    { i \in 1..Len(trace) : trace[i].op = "is_visible" /\ trace[i].ladder = tag }

\* The selectors of a ladder probed by the trace, in the order of the
\* trace.
RECURSIVE ProbedSelectors(_, _, _)
ProbedSelectors(trace, tag, i) ==
    IF i > Len(trace) THEN << >>
    ELSE IF i \in ProbedAt(trace, tag)
    THEN << trace[i].selector >> \o ProbedSelectors(trace, tag, i + 1)
    ELSE ProbedSelectors(trace, tag, i + 1)

PlatformKnown(info) == HasKey(info, "platform") /\ info.platform # "unknown"

\* C30: in add_to_cart, navigate_to_checkout and the two resolutions of
\* apply_coupon, a generic selector is probed only after every selector of
\* the platform-specific ladder of the role was probed and nothing was
\* done with any of them; with the platform "unknown" (or no platform) the
\* platform-specific ladder is not probed.
C30_PlatformBeforeGeneric ==
    \A r \in C30_Resolutions :
        stage_call = r.stage
            => LET P == ProbedAt(stage_trace, r.platform)
                   G == ProbedAt(stage_trace, r.generic)
               IN /\ ~PlatformKnown(platform_info) => P = {}
                  /\ (PlatformKnown(platform_info) /\ G # {})
                       => /\ ProbedSelectors(stage_trace, r.platform, 1)
                               = platform_ladder(platform_info, r.role)
                          /\ \A p \in P, g \in G : p < g
                          /\ \A i \in Acts(stage_trace) :
                               stage_trace[i].ladder # r.platform

\* apply_coupon on a woocommerce page: the three selectors of the platform
\* ladder of the apply button were probed in vain, then the generic
\* '.apply-coupon' was clicked.
C30_Witness ==
    /\ stage_call = "apply_coupon"
    /\ platform_info.platform = "woocommerce"
    /\ Len(ProbedSelectors(stage_trace, "platform_button", 1)) = 3
    /\ \E i \in 1..Len(stage_trace) :
         stage_trace[i] = Op("click", "generic_button", ".apply-coupon", 0)

\* apply_coupon on a magento page: the platform ladder of the coupon field
\* was probed in vain, then a generic selector was filled.
C30_WitnessField ==
    /\ stage_call = "apply_coupon"
    /\ platform_info.platform = "magento"
    /\ Len(ProbedSelectors(stage_trace, "platform", 1)) = 3
    /\ \E i \in 1..Len(stage_trace) :
         stage_trace[i].op = "fill" /\ stage_trace[i].ladder = "generic"

\* add_to_cart on a woocommerce page: platform ladder in vain, generic
\* '.add-to-cart' clicked.
C30_WitnessAddToCart ==
    /\ stage_call = "add_to_cart"
    /\ platform_info.platform = "woocommerce"
    /\ Len(ProbedSelectors(stage_trace, "platform", 1)) = 3
    /\ \E i \in 1..Len(stage_trace) :
         stage_trace[i] = Op("click", "generic", ".add-to-cart", 0)

\* navigate_to_checkout on a magento page: the checkout buttons of magento
\* and the platform ladder in vain, a generic selector clicked.
C30_WitnessCheckout ==
    /\ stage_call = "navigate_to_checkout"
    /\ platform_info.platform = "magento"
    /\ Len(ProbedSelectors(stage_trace, "platform", 1)) = 3
    /\ \E i \in 1..Len(stage_trace) :
         stage_trace[i] = Op("click", "generic", ".checkout-button", 0)

\* navigate_to_checkout on a page of unknown platform probed generic
\* selectors.
C30_WitnessUnknown ==
    /\ stage_call = "navigate_to_checkout"
    /\ platform_info.platform = "unknown"
    /\ ProbedAt(stage_trace, "generic") # {}

\* The attempt ran the content script and did not fail on its result.
PassesContentCheck(outcome) ==
    /\ outcome.content_checks # << >>
    /\ outcome.content_checks[1].returned
    /\ "Insufficient content" \notin Range(outcome.errors)

\* The body element exists and its serialized size exceeds 100 characters.
ExceedsThreshold(content) ==
    content.returned /\ content.bodyExists /\ content.contentLength > 100

\* C24: an attempt that got a response passes the content-sufficiency
\* check exactly when the body element exists and its serialized size
\* exceeds 100 characters, and an attempt that does not pass is failed
\* whatever the HTTP status.
C24_ContentCheckThreshold ==
    \A k \in 1..Len(attempt_log) :
        LET env == attempt_log[k].env
            outcome == NavigationAttempt(k, attempt_log[k].strategy, env)
        IN env.response # Raises
             => /\ (env.response = NoResponse \/ env.response < 400)
                     => (PassesContentCheck(outcome)
                           <=> ExceedsThreshold(env.content))
                /\ ~PassesContentCheck(outcome) => ~outcome.success

\* The page of the attempt shows an interstitial challenge or a captcha
\* and nothing else stands in the way of the bot script: the response is
\* under 400 or none and the content is sufficient.
ChallengeSignal(env) ==
    /\ env.response # Raises
    /\ env.response = NoResponse \/ env.response < 400
    /\ ContentSufficient(env.content)
    /\ env.bot.returned
    /\ env.bot.hasCloudflare \/ env.bot.hasCaptcha

\* The bypass routine of the signal was called: the call is recorded by
\* the error of the missing routine.
BypassInvoked(k, bot, outcome) ==
    LET routine == IF bot.hasCloudflare THEN "_handle_cloudflare_challenge"
                   ELSE "_handle_captcha_challenge"
    IN AttemptFailed(k, "'BrowserEngine' object has no attribute '"
                          \o routine \o "'") \in Range(outcome.errors)

\* C25: when the cloudflare or the captcha signal fires on tactic k, the
\* attempt is failed, the bypass routine is invoked, and navigate goes on
\* with tactic k + 1 (it returns False after tactic 5).
C25_BotSignalInvokesBypass ==
    \A k \in 1..Len(attempt_log) :
        LET env == attempt_log[k].env
            outcome == NavigationAttempt(k, attempt_log[k].strategy, env)
        IN ChallengeSignal(env)
             => /\ ~outcome.success
                /\ "Bot detection triggered" \in Range(outcome.errors)
                /\ BypassInvoked(k, env.bot, outcome)
                /\ k = Len(attempt_log)
                     => \/ nav_pc = "attempting" /\ nav_i = k + 1
                        \/ nav_pc = "returned" /\ ~nav_result /\ k = 5

\* The part of C25 that the code keeps: after a challenge on tactic k the
\* attempt is failed and navigate goes on with tactic k + 1 or returns
\* False after tactic 5.
C25_ChallengeNeverCrashes ==
    \A k \in 1..Len(attempt_log) :
        LET env == attempt_log[k].env
            outcome == NavigationAttempt(k, attempt_log[k].strategy, env)
        IN ChallengeSignal(env)
             => /\ ~outcome.success
                /\ k = Len(attempt_log)
                     => \/ nav_pc = "attempting" /\ nav_i = k + 1
                        \/ nav_pc = "returned" /\ ~nav_result /\ k = 5

(***************************************************************************)
(* Properties of the coupon application and of the browser session.       *)
(***************************************************************************)
\* The page has an input whose id or name contains "coupon": the scan of
\* all inputs finds it, visible or not.
ScanFindsCouponInput(d) ==
    \E s \in { "#coupon_code", "input[name=\"coupon_code\"]" } : s \in DOMAIN d

\* The coupon field was filled through a selector of the platform-specific
\* or of the generic ladder.
FieldFilledBySelector(trace) ==
    \E i \in 1..Len(trace) :
        trace[i].op = "fill" /\ trace[i].ladder \in { "platform", "generic" }

\* C31: when no platform-specific and no generic coupon-field selector is
\* visible and the page has an input with a coupon-like id or name,
\* apply_coupon scans the inputs with execute_javascript, fills the input
\* and goes on to the submission instead of returning 'Could not find
\* coupon input field'.
C31_ScriptScanFillsField ==
    (/\ stage_call = "apply_coupon"
     /\ page = "open"
     /\ ~FieldFilledBySelector(stage_trace)
     /\ ScanFindsCouponInput(dom))
        => /\ \E i \in 1..Len(stage_trace) :
                /\ stage_trace[i].op = "execute_javascript"
                /\ stage_trace[i].ladder = "coupon_field"
           /\ stage_result.success

\* Position i of the log is the return of a close on which no release
\* raised.
CompletedClose(log, i) ==
    /\ log[i] = Op("return", "close", "", 0)
    /\ i > 1 => log[i - 1].op # "raise"

\* A close has completed and start was not called since.
ClosedSession(log) ==
    \E i \in 1..Len(log) :
        /\ CompletedClose(log, i)
        /\ \A j \in (i + 1)..Len(log) : log[j].ladder # "start"

AllReleased ==
    /\ page = "none"
    /\ context = "none"
    /\ browser = "none"
    /\ playwright = "none"

\* C34: after a close that completed, a second close releases nothing and
\* does not raise, and navigate, click, fill, press_key, is_visible,
\* get_text, execute_javascript and take_screenshot return False or None
\* without acting.
C34_CloseIdempotent ==
    [][ClosedSession(stage_trace)
         => /\ AllReleased
            /\ stage_call' = "close"
                 => /\ AllReleased'
                    /\ stage_trace' = Append(stage_trace,
                                             Op("return", "close", "", 0))
            /\ stage_call' \in Primitives
                 => /\ AllReleased'
                    /\ Len(stage_trace') = Len(stage_trace) + 1
                    /\ stage_trace'[Len(stage_trace')].op = "return"
                    /\ stage_trace'[Len(stage_trace')].ladder = stage_call'
                    /\ stage_trace'[Len(stage_trace')].arg = 0]_vars

\* The session was started, closed with four releases and closed again.
C34_Witness ==
    /\ Len(stage_trace) = 7
    /\ stage_trace[1] = Op("return", "start", "", 1)
    /\ \A i \in 2..5 : stage_trace[i].op = "release"
    /\ CompletedClose(stage_trace, 6)
    /\ CompletedClose(stage_trace, 7)
    /\ AllReleased

\* The session was started and closed, then click was called and returned
\* False.
C34_WitnessClick ==
    /\ Len(stage_trace) = 7
    /\ stage_trace[1] = Op("return", "start", "", 1)
    /\ CompletedClose(stage_trace, 6)
    /\ stage_trace[7] = Op("return", "click", ".apply-coupon", 0)

\* C35: when close has returned, the page, the context, the browser and
\* the driver are released and their fields are None, even when the
\* release of one of them raised.
C35_CloseReleasesAll ==
    (/\ Len(stage_trace) > 0
     /\ stage_trace[Len(stage_trace)] = Op("return", "close", "", 0))
        => AllReleased

\* C38: click and fill with retry return True only if an element that
\* matches the selector was clicked (filled); when nothing matches they
\* return False.
C38_TrueOnlyIfActed ==
    \A i \in 1..Len(stage_trace) :
        (/\ stage_trace[i].op = "return"
         /\ stage_trace[i].ladder \in { "click", "fill" })
            => (stage_trace[i].arg = 1
                  <=> (/\ i > 1
                       /\ stage_trace[i - 1].op
                            = "element." \o stage_trace[i].ladder))

\* The selectors the coupon field was filled through.
FilledSelectors(trace) ==
    { trace[i].selector : i \in { j \in 1..Len(trace) : trace[j].op = "fill" } }

\* An apply control was clicked.
ApplyClicked(trace) ==
    \E i \in 1..Len(trace) :
        /\ trace[i].op = "click"
        /\ trace[i].ladder \in { "platform_button", "generic_button" }

\* Enter was pressed on a selector.
EnterPressed(trace) ==
    { trace[i].selector :
        i \in { j \in 1..Len(trace) : trace[j].op = "press_key" } }

\* C32: when the coupon field was filled and no apply control is found by
\* the platform ladder, the generic ladder or the script scan, apply_coupon
\* presses Enter on the field it filled.
C32_EnterOnFilledField ==
    (/\ stage_call = "apply_coupon"
     /\ FilledSelectors(stage_trace) # {}
     /\ ~ApplyClicked(stage_trace))
        => /\ EnterPressed(stage_trace) # {}
           /\ EnterPressed(stage_trace) \subseteq FilledSelectors(stage_trace)

\* The number of calls of the hook that expands the coupon section.
HookCalls(trace) ==
    Cardinality({ i \in 1..Len(trace) :
                    trace[i].op = "find_and_expand_coupon_section" })

\* C37: on a magento page the hook that expands the coupon section is
\* executed at most once in the coupon step of a run, before the coupon
\* field is resolved.
C37_HookAtMostOnce ==
    (stage_call \in { "validate_coupon", "apply_coupon" }
       /\ platform_info.platform = "magento")
        => HookCalls(stage_trace) <= 1

\* apply_coupon alone calls the hook once on a magento page, before the
\* first probe of the coupon field.
C37_ApplyCouponCallsHookOnce ==
    (stage_call = "apply_coupon" /\ platform_info.platform = "magento")
        => /\ HookCalls(stage_trace) = 1
           /\ \A i, j \in 1..Len(stage_trace) :
                (/\ stage_trace[i].op = "find_and_expand_coupon_section"
                 /\ stage_trace[j].ladder \in { "platform", "generic" })
                    => i < j

\* C39: when apply_coupon returns success = true the code was entered into
\* a coupon field and a submission (a click on an apply control or Enter)
\* was made before the page was classified.
C39_SuccessMeansSubmitted ==
    (stage_call = "apply_coupon" /\ stage_result.success)
        => \E f, s, c \in 1..Len(stage_trace) :
             /\ f < s /\ s < c
             /\ stage_trace[f].op = "fill"
             /\ \/ /\ stage_trace[s].op = "click"
                   /\ stage_trace[s].ladder
                        \in { "platform_button", "generic_button" }
                \/ stage_trace[s].op = "press_key"
             /\ stage_trace[c].op = "_check_validation_result"

\* The ladders and calls recorded by the classifier.
StepTags(trace) == { trace[i].ladder : i \in 1..Len(trace) }

\* A platform-specific ladder of the descriptor produced a message.
PlatformProduced ==
    \E i \in 1..Len(stage_trace) :
        /\ stage_trace[i].ladder \in { "platform_success", "platform_error" }
        /\ stage_trace[i].arg = 1

\* C33: the classifier probes the generic success and error ladders
\* exactly when the platform-specific ladders produced neither a success
\* nor an error message, and it attempts the discount extraction in every
\* case, as its last step.
C33_GenericIffNoPlatformMessage ==
    stage_call = "_check_validation_result"
        => /\ ("generic_success" \in StepTags(stage_trace)) <=> ~PlatformProduced
           /\ ("generic_error" \in StepTags(stage_trace)) <=> ~PlatformProduced
           /\ stage_trace[Len(stage_trace)].op = "_extract_discount_amount"
           /\ \A i, j \in 1..Len(stage_trace) :
                (/\ stage_trace[i].ladder \in { "generic_success", "generic_error" }
                 /\ stage_trace[j].ladder \in { "platform_success", "platform_error" })
                    => j < i

\* A platform-specific error message was found: the generic ladders were
\* skipped and the discount extraction was still attempted.
C33_Witness ==
    /\ stage_call = "_check_validation_result"
    /\ \E i \in 1..Len(stage_trace) :
         stage_trace[i].ladder = "platform_error" /\ stage_trace[i].arg = 1
    /\ validation_result.error_message # None
    /\ "generic_success" \notin StepTags(stage_trace)
    /\ "discount" \in StepTags(stage_trace)

\* No platform message: both generic ladders and the extraction ran.
C33_WitnessGeneric ==
    /\ stage_call = "_check_validation_result"
    /\ platform_info.platform = "woocommerce"
    /\ ~PlatformProduced
    /\ validation_result.success_message # None
    /\ "generic_error" \in StepTags(stage_trace)
    /\ "discount" \in StepTags(stage_trace)

\* main.py:136: the role is in the descriptor and its ladder is empty.
MergeBranchTaken(info, role) == HasKey(info, role) /\ Len(info[role]) = 0

\* An analysis that detected one role, for every role of the analyzer.
AllDetections ==
    { AIDetection(element_types[i], c) :
        i \in DOMAIN element_types, c \in { 71, 81 } }

\* C40: for every descriptor identify_platform returns, no role is present
\* with an empty ladder, so lines 136-145 of validate_coupon are never
\* executed: merging an analysis only adds ai_confidence_scores, and a
\* descriptor that went through the merge holds the ladders of
\* platform_selectors unchanged.
C40_MergeBranchNeverTaken ==
    /\ (platform_info # NoInfo /\ ~HasKey(platform_info, "ai_confidence_scores"))
          => /\ \A i \in DOMAIN element_types :
                  ~MergeBranchTaken(platform_info, element_types[i])
             /\ \A ai \in AllDetections :
                  merge_ai_analysis(platform_info, ai)
                    = [ai_confidence_scores |-> ai.confidence_scores]
                        @@ platform_info
    /\ (platform_info # NoInfo /\ HasKey(platform_info, "ai_confidence_scores"))
          => \A i \in DOMAIN element_types :
               HasKey(platform_info, element_types[i])
                 => platform_info[element_types[i]]
                      = platform_selectors[platform_info.platform][element_types[i]]

\* A woocommerce descriptor, which holds a discount_amount ladder, after
\* the analysis detected the discount element: the ladder is the
\* platform's.
C40_Witness ==
    /\ platform_info # NoInfo
    /\ platform_info.platform = "woocommerce"
    /\ HasKey(platform_info, "ai_confidence_scores")
    /\ HasKey(platform_info.ai_confidence_scores, "discount_amount")
    /\ platform_info.discount_amount
         = platform_selectors.woocommerce.discount_amount

====
